---- MODULE Spec2Model ----
(***************************************************************************)
(* Model of the race session engine of openlap (src/app/rms/session.ts)   *)
(* together with the parts of the payment service it calls                 *)
(* (src/app/services/car-sync.service.ts).                                 *)
(*                                                                         *)
(* Conventions.                                                            *)
(*  - Lane masks are 8-bit integers 0..255, exactly as in the source;      *)
(*    the bit operators below work on that width.                          *)
(*  - JavaScript arrays are 0-based, TLA+ sequences are 1-based: the       *)
(*    JavaScript element a[i] is the sequence element a[i + 1].            *)
(*  - The JavaScript values NaN / undefined and Infinity are the integers  *)
(*    NaN and Infinity below; every arithmetic helper treats them as       *)
(*    JavaScript does.  Null is the JavaScript null of realMask.           *)
(***************************************************************************)
EXTENDS Integers, Sequences, FiniteSets, TLC

\* ------------------------------------------------------------------ bounds
\* hardware timer events fed to one race session
MaxEvents == 3
\* control operations of one race session: yellow-flag toggles, stop(),
\* start-light changes and payment API polls
MaxControl == 3
\* largest credit counter loaded from storage or reached by coin insertion
MaxCredit == 1
\* hardware timer events fed to the single-lane track
MaxTrackEvents == 4
\* hardware timer events fed to the three-lane ranking sessions
MaxRankEvents == 4
\* largest raw hardware counter value of the single-lane track, in intervals
MaxRaw == 2
\* largest wall-clock reading (Date.now()) of the single-lane track, in intervals
MaxNow == 1
\* coin_value of a car in a response of the payment API: 0 .. MaxCoin
MaxCoin == 2
\* options.drivers of the constructed sessions: 0 (not set) .. MaxDrivers
MaxDrivers == 8
\* hardware timer events fed to the session whose grid the page listens to
MaxGridEvents == 7
\* hardware timer events fed to the sessions with a long lap limit
MaxLapEvents == 10
\* pit bitmasks the hardware reports to the session
MaxPitReports == 4

\* ------------------------------------------------------- program constants
TIMER_INTERVAL == 500
\* 1 << n shifts by n modulo 32
ShiftWidth == 32
DefaultMinLapTime == 500
\* the lowest lap limit with a 'fivelaps' event
FiveLapsLimit == 10
AllLanes == 255
NaN == 0 - (10 ^ 8)
Infinity == 10 ^ 9
Null == 0 - 1

\* the lanes that receive hardware timer events and are cars of the payment API
Lanes == {0, 1}
\* the sector sensors of the track; sensor 1 is the start/finish line
Sensors == {1, 2, 3}
Bits == 0 .. 7

\* ---------------------------------------------------------- JS arithmetic
IsNaN(x) == x = NaN

IsInf(x) == x = Infinity \/ x = 0 - Infinity

\* a - b
JsSub(a, b) ==
    IF IsNaN(a) \/ IsNaN(b) THEN NaN
    ELSE IF IsInf(a) /\ a = b THEN NaN
    ELSE IF IsInf(a) THEN a
    ELSE IF IsInf(b) THEN 0 - b
    ELSE a - b

\* a + b
JsAdd(a, b) ==
    IF IsNaN(a) \/ IsNaN(b) THEN NaN
    ELSE IF IsInf(a) /\ IsInf(b) /\ a # b THEN NaN
    ELSE IF IsInf(a) THEN a
    ELSE IF IsInf(b) THEN b
    ELSE a + b

\* variant of a > b that also holds when the operands are equal
JsGe(a, b) == ~IsNaN(a) /\ ~IsNaN(b) /\ a >= b

\* a > b (false whenever an operand is NaN)
JsGt(a, b) == ~IsNaN(a) /\ ~IsNaN(b) /\ a > b

\* a < b (false whenever an operand is NaN)
JsLt(a, b) == ~IsNaN(a) /\ ~IsNaN(b) /\ a < b

\* a || b on numbers: NaN, undefined and 0 are falsy
JsOr(a, b) == IF IsNaN(a) \/ a = 0 THEN b ELSE a

\* variant of Math.min that returns its first argument
JsMinFirst(a, b) == a

\* Math.min(a, b)
JsMin(a, b) == IF IsNaN(a) \/ IsNaN(b) THEN NaN ELSE IF a < b THEN a ELSE b

\* Math.max(a, b)
JsMax(a, b) == IF IsNaN(a) \/ IsNaN(b) THEN NaN ELSE IF a > b THEN a ELSE b

\* ------------------------------------------------------- 8-bit operations
Pow2(i) == 2 ^ i

\* (m & (1 << i)) != 0
HasBit(m, i) == (m \div Pow2(i)) % 2 = 1

RECURSIVE BitsToInt(_)
BitsToInt(S) ==
    IF S = {} THEN 0
    ELSE LET i == CHOOSE x \in S : TRUE IN Pow2(i) + BitsToInt(S \ {i})

BitSet(m) == {i \in Bits : HasBit(m, i)}

\* a | b
BitOr(a, b) == BitsToInt(BitSet(a) \cup BitSet(b))

\* a & b
BitAnd(a, b) == BitsToInt(BitSet(a) \cap BitSet(b))

\* ~a & 0xff
BitNot(a) == BitsToInt(Bits \ BitSet(a))

\* a[i] of a JavaScript array: undefined (NaN) outside the array
At(a, i) == IF i >= 0 /\ i < Len(a) THEN a[i + 1] ELSE NaN

\* a[i] = v on a JavaScript array: the array grows, holes are undefined
SetAt(a, i, v) ==
    [k \in 1 .. (IF i + 1 > Len(a) THEN i + 1 ELSE Len(a)) |->
        IF k = i + 1 THEN v ELSE IF k <= Len(a) THEN a[k] ELSE NaN]

\* -------------------------------------------------------------- the state
VARIABLES
    options,    \* RaceOptions the session was constructed with
    session,    \* fields of the Session object
    timerAcc,   \* accumulator of the timer normalizer scan
    lanes,      \* per lane: accumulator of the times scan (times, last, best, finished)
    ranking,    \* the leaderboard most recently emitted by Session.ranking
    cuMask,     \* the mask most recently sent to the hardware with cu.setMask
    carSync,    \* payment service: creditCounters, active cars, manually_unblocked cars
    events,     \* number of hardware timer events fed so far
    controls,   \* number of control operations so far
    cuStart,    \* the start-light state the hardware reported last
    cuState,    \* the connection state the hardware reported last
    ctor,       \* the constructor's createMask loop: its position, first and mask
    page,       \* RmsPage: whether its one-shot start-light subscription has fired
    op          \* the operation that ran last: its name and arguments, whether it
                \* sent a mask to the hardware, whether it is a timer event equal
                \* to the timer event right before it, the unpaidMask in force
                \* when it emitted a leaderboard (Null when it emitted none), and
                \* the signals it sent to the payment service

vars == <<options, session, timerAcc, lanes, ranking, cuMask, carSync, events, controls,
          cuStart, cuState, ctor, page, op>>

\* car ids of the payment service are 1-based
Cars == {id + 1 : id \in Lanes}

Call(cmd, arg) == [cmd |-> cmd, arg |-> arg]

\* ---------------------------------------------------------------- options
\* RaceOptions('practice'): no lap limit, no countdown, auto and pace lanes on
PracticeOptions ==
    [mode |-> "practice", laps |-> 0, time |-> 0, pause |-> FALSE, slotmode |-> FALSE,
     drivers |-> 0, auto |-> TRUE, pace |-> TRUE, minLapTime |-> DefaultMinLapTime]

\* RaceOptions('race') with the lap limit scaled down
RaceOptions ==
    [mode |-> "race", laps |-> 1, time |-> 0, pause |-> FALSE, slotmode |-> FALSE,
     drivers |-> 0, auto |-> FALSE, pace |-> FALSE, minLapTime |-> DefaultMinLapTime]

\* ------------------------------------------------------------ payment service
\* CarSyncService.hasCarPaid
hasCarPaid(cs, carId) ==
    (IF carId \in DOMAIN cs.creditCounters THEN cs.creditCounters[carId] ELSE 0) > 0

\* variant of isCarManuallyUnblocked that never reports an unblocked car
isCarManuallyUnblockedNever(cs, carId) == FALSE

\* CarSyncService.isCarManuallyUnblocked
isCarManuallyUnblocked(cs, carId) == carId \in cs.unblocked

\* ------------------------------------------------------------------ Session
RECURSIVE createMask(_, _)
createMask(first, last) ==
    IF first = last THEN 0 ELSE BitOr(Pow2(first), createMask(first + 1, last))

\* the mask computed by the constructor
InitialMask(o) ==
    LET base == BitOr(IF o.auto THEN 0 ELSE Pow2(6), IF o.pace THEN 0 ELSE Pow2(7))
    IN  IF o.drivers # 0 THEN BitOr(base, createMask(o.drivers, 6)) ELSE base

\* the lanes createGrid starts with: the enabled lanes when options.drivers is
\* set, and the cars the payment service reports active
InitialGrid(o, cs) ==
    (IF o.drivers # 0 THEN BitSet(BitNot(InitialMask(o))) ELSE {})
        \cup {c - 1 : c \in cs.active}

NewLane == [times |-> <<>>, last |-> <<>>, best |-> <<>>, finished |-> FALSE]

\* variant of isFinished that tests manuallyStopped in place of stopped
isFinishedManual(s, o, laps) ==
    IF s.manuallyStopped THEN TRUE
    ELSE IF o.laps # 0 /\ laps >= o.laps THEN TRUE
    ELSE IF ~o.slotmode /\ s.finished THEN TRUE
    ELSE FALSE

\* variant of isFinished in which slotmode defers every finish to stop()
isFinishedSlot(s, o, laps) ==
    IF o.slotmode THEN s.manuallyStopped
    ELSE IF s.stopped THEN TRUE
    ELSE IF o.laps # 0 /\ laps >= o.laps THEN TRUE
    ELSE IF s.finished THEN TRUE
    ELSE FALSE

\* variant of isFinished without the lap limit
isFinishedNoLimit(s, o, laps) ==
    IF s.stopped THEN TRUE
    ELSE IF ~o.slotmode /\ s.finished THEN TRUE
    ELSE FALSE

\* Session.isFinished
isFinished(s, o, laps) ==
    IF s.stopped THEN TRUE
    ELSE IF o.laps # 0 /\ laps >= o.laps THEN TRUE
    ELSE IF ~o.slotmode /\ s.finished THEN TRUE
    ELSE FALSE

\* variant of the participant list that takes only the lanes of the grid
participatingCarIdsActive(s) ==
    {i + 1 : i \in {j \in 0 .. 5 : HasBit(s.active, j) /\ ~HasBit(s.unpaidMask, j)}}

\* the car ids finish() hands to markCoinsAsConsumed
participatingCarIds(s) == {i + 1 : i \in {j \in 0 .. 5 : ~HasBit(s.unpaidMask, j)}}

\* variant of finish that sends the mask to the hardware even when unchanged
finishAlwaysPush(s, cs, id) ==
    LET m1 == BitOr(s.mask, BitNot(s.active))
        unb == id # Null /\ isCarManuallyUnblocked(cs, id + 1)
        already == id # Null /\ id \in s.autoBlockedCars
        m2 == IF id = Null THEN m1
              ELSE IF ~unb /\ ~already THEN BitOr(m1, Pow2(id))
              ELSE IF unb THEN BitAnd(m1, BitNot(Pow2(id)))
              ELSE m1
        blocked == IF id # Null /\ ~unb /\ ~already
                   THEN s.autoBlockedCars \cup {id} ELSE s.autoBlockedCars
        consume == id = Null /\ ~s.coinsConsumed
    IN  [s |-> [s EXCEPT !.mask = m2, !.autoBlockedCars = blocked,
                         !.coinsConsumed = IF consume THEN TRUE ELSE @,
                         !.finished = IF id = Null THEN TRUE ELSE @],
         calls |-> <<Call("setMask", m2)>>
                   \o (IF id # Null THEN <<Call("setFinished", id)>> ELSE <<>>)
                   \o (IF consume /\ ~s.manuallyStopped /\ participatingCarIds(s) # {}
                       THEN <<Call("markCoinsAsConsumed", BitsToInt(participatingCarIds(s)))>>
                       ELSE <<>>)
                   \o (IF consume THEN <<Call("blockAllActiveCars", 0)>> ELSE <<>>)]

\* variant of finish that consumes the credits after a manual stop too
finishIgnoreManual(s, cs, id) ==
    LET m1 == BitOr(s.mask, BitNot(s.active))
        unb == id # Null /\ isCarManuallyUnblocked(cs, id + 1)
        already == id # Null /\ id \in s.autoBlockedCars
        m2 == IF id = Null THEN m1
              ELSE IF ~unb /\ ~already THEN BitOr(m1, Pow2(id))
              ELSE IF unb THEN BitAnd(m1, BitNot(Pow2(id)))
              ELSE m1
        blocked == IF id # Null /\ ~unb /\ ~already
                   THEN s.autoBlockedCars \cup {id} ELSE s.autoBlockedCars
        consume == id = Null /\ ~s.coinsConsumed
    IN  [s |-> [s EXCEPT !.mask = m2, !.autoBlockedCars = blocked,
                         !.coinsConsumed = IF consume THEN TRUE ELSE @,
                         !.finished = IF id = Null THEN TRUE ELSE @],
         calls |-> (IF s.mask # m2 THEN <<Call("setMask", m2)>> ELSE <<>>)
                   \o (IF id # Null THEN <<Call("setFinished", id)>> ELSE <<>>)
                   \o (IF consume /\ participatingCarIds(s) # {}
                       THEN <<Call("markCoinsAsConsumed", BitsToInt(participatingCarIds(s)))>>
                       ELSE <<>>)
                   \o (IF consume THEN <<Call("blockAllActiveCars", 0)>> ELSE <<>>)]

\* variant of finish without the coinsConsumed guard
finishEveryTime(s, cs, id) ==
    LET m1 == BitOr(s.mask, BitNot(s.active))
        unb == id # Null /\ isCarManuallyUnblocked(cs, id + 1)
        already == id # Null /\ id \in s.autoBlockedCars
        m2 == IF id = Null THEN m1
              ELSE IF ~unb /\ ~already THEN BitOr(m1, Pow2(id))
              ELSE IF unb THEN BitAnd(m1, BitNot(Pow2(id)))
              ELSE m1
        blocked == IF id # Null /\ ~unb /\ ~already
                   THEN s.autoBlockedCars \cup {id} ELSE s.autoBlockedCars
        consume == id = Null
    IN  [s |-> [s EXCEPT !.mask = m2, !.autoBlockedCars = blocked,
                         !.coinsConsumed = IF consume THEN TRUE ELSE @,
                         !.finished = IF id = Null THEN TRUE ELSE @],
         calls |-> (IF s.mask # m2 THEN <<Call("setMask", m2)>> ELSE <<>>)
                   \o (IF id # Null THEN <<Call("setFinished", id)>> ELSE <<>>)
                   \o (IF consume /\ ~s.manuallyStopped /\ participatingCarIds(s) # {}
                       THEN <<Call("markCoinsAsConsumed", BitsToInt(participatingCarIds(s)))>>
                       ELSE <<>>)
                   \o (IF consume THEN <<Call("blockAllActiveCars", 0)>> ELSE <<>>)]

\* Session.finish(id); id = Null is the call without an argument
finish(s, cs, id) ==
    LET m1 == BitOr(s.mask, BitNot(s.active))
        unb == id # Null /\ isCarManuallyUnblocked(cs, id + 1)
        already == id # Null /\ id \in s.autoBlockedCars
        m2 == IF id = Null THEN m1
              ELSE IF ~unb /\ ~already THEN BitOr(m1, Pow2(id))
              ELSE IF unb THEN BitAnd(m1, BitNot(Pow2(id)))
              ELSE m1
        blocked == IF id # Null /\ ~unb /\ ~already
                   THEN s.autoBlockedCars \cup {id} ELSE s.autoBlockedCars
        consume == id = Null /\ ~s.coinsConsumed
    IN  [s |-> [s EXCEPT !.mask = m2, !.autoBlockedCars = blocked,
                         !.coinsConsumed = IF consume THEN TRUE ELSE @,
                         !.finished = IF id = Null THEN TRUE ELSE @],
         calls |-> (IF s.mask # m2 THEN <<Call("setMask", m2)>> ELSE <<>>)
                   \o (IF id # Null THEN <<Call("setFinished", id)>> ELSE <<>>)
                   \o (IF consume /\ ~s.manuallyStopped /\ participatingCarIds(s) # {}
                       THEN <<Call("markCoinsAsConsumed", BitsToInt(participatingCarIds(s)))>>
                       ELSE <<>>)
                   \o (IF consume THEN <<Call("blockAllActiveCars", 0)>> ELSE <<>>)]

\* variant of toggleYellowFlag that does not save the mask on activation
toggleYellowFlagNoSave(s) ==
    LET s1 == IF s.yellowFlag
              THEN [s EXCEPT !.mask = s.realMask, !.realMask = Null]
              ELSE [s EXCEPT !.mask = AllLanes]
    IN  [s |-> [s1 EXCEPT !.yellowFlag = ~s.yellowFlag],
         calls |-> <<Call("setMask", s1.mask)>>]

\* variant of toggleYellowFlag that keeps the saved mask on deactivation
toggleYellowFlagKeepSaved(s) ==
    LET s1 == IF s.yellowFlag
              THEN [s EXCEPT !.mask = s.realMask]
              ELSE [s EXCEPT !.realMask = s.mask, !.mask = AllLanes]
    IN  [s |-> [s1 EXCEPT !.yellowFlag = ~s.yellowFlag],
         calls |-> <<Call("setMask", s1.mask)>>]

\* Session.toggleYellowFlag
toggleYellowFlag(s) ==
    LET s1 == IF s.yellowFlag
              THEN [s EXCEPT !.mask = s.realMask, !.realMask = Null]
              ELSE [s EXCEPT !.realMask = s.mask, !.mask = AllLanes]
    IN  [s |-> [s1 EXCEPT !.yellowFlag = ~s.yellowFlag],
         calls |-> <<Call("setMask", s1.mask)>>]

\* variant of applyUnpaidMask that does not push the mask
applyUnpaidMaskNoPush(s, unpaidMask) ==
    [s |-> [s EXCEPT !.unpaidMask = unpaidMask, !.mask = BitOr(s.mask, unpaidMask)],
     calls |-> <<>>]

\* Session.applyUnpaidMask
applyUnpaidMask(s, unpaidMask) ==
    LET m == BitOr(s.mask, unpaidMask)
    IN  [s |-> [s EXCEPT !.unpaidMask = unpaidMask, !.mask = m],
         calls |-> <<Call("setMask", m)>>]

\* variant of isCarMaskedByPayment that reports no car as masked
isCarMaskedByPaymentNever(s, carId) == FALSE

\* Session.isCarMaskedByPayment
isCarMaskedByPayment(s, carId) == BitAnd(s.unpaidMask, Pow2(carId)) # 0

\* ------------------------------------------------------- timer normalizer
\* variant of timerFilter that tests the unpaid mask instead of the live mask
timerFilterUnpaid(s, id) == ~HasBit(s.unpaidMask, id)

\* variant of timerFilter that lets every event pass
timerFilterNone(s, id) == TRUE

\* the filter in front of the scan: events of masked lanes are dropped
timerFilter(s, id) == ~HasBit(s.mask, id)

\* seed of the scan in the constructor: [[Infinity, 0, NaN], [Infinity, 0, NaN]]
TimerSeed == [time |-> 0, prev |-> Infinity, offset |-> 0, then |-> NaN]

\* variant of timerScan that leaves the offset alone on the first event
timerScanRaw(acc, time, now) ==
    LET offset == IF JsLt(time, acc.prev) /\ acc.prev # Infinity
                  THEN JsSub(JsOr(JsAdd(JsSub(now, acc.then), acc.prev), 0), time)
                  ELSE acc.offset
    IN  [time |-> JsAdd(time, offset), prev |-> time, offset |-> offset, then |-> now]

\* one step of the scan: the event (id, time, group) arrives at wall clock now
timerScan(acc, time, now) ==
    LET offset == IF JsLt(time, acc.prev)
                  THEN JsSub(JsOr(JsAdd(JsSub(now, acc.then), acc.prev), 0), time)
                  ELSE acc.offset
    IN  [time |-> JsAdd(time, offset), prev |-> time, offset |-> offset, then |-> now]

\* ------------------------------------------------------------- lane track
\* variant of lastSeen without debounce
lastSeenNever(tail, sensor) == 0 - Infinity

\* the time the debounce of the times scan compares with: the lap's time at
\* this sensor, -Infinity when the lap has none yet
lastSeen(tail, sensor) == IF Len(tail) >= sensor THEN At(tail, sensor - 1) ELSE 0 - Infinity

\* one step of the times scan of lane id: the event (id, time, sensor)
\* s is the session before the step; the result holds the lane, the session
\* and the commands issued by finish()
timesScan(lane, s, cs, o, id, time, sensor) ==
    LET times == lane.times
        tail == IF Len(times) > 0 THEN times[Len(times)] ELSE <<>>
        canRecordTime == hasCarPaid(cs, id + 1)
        accept == sensor # 0 /\ JsGt(time, JsAdd(lastSeen(tail, sensor), o.minLapTime))
                  /\ canRecordTime
    IN  IF ~accept THEN [lane |-> lane, s |-> s, calls |-> <<>>]
        ELSE IF sensor = 1 THEN
            LET times1 == Append(times, <<time>>)
                last0 == JsSub(time, At(tail, 0))
                last1 == SetAt(lane.last, 0, last0)
                best1 == SetAt(lane.best, 0, JsMin(last0, JsOr(At(lane.best, 0), Infinity)))
                n == Len(tail)
                lastn == JsSub(time, At(tail, n - 1))
                last2 == IF n > 1 THEN SetAt(last1, n, lastn) ELSE last1
                best2 == IF n > 1
                         THEN SetAt(best1, n, JsMin(lastn, JsOr(At(best1, n), Infinity)))
                         ELSE best1
                fin == ~lane.finished /\ isFinished(s, o, Len(times1) - 1)
                f == finish(s, cs, id)
            IN  [lane |-> [times |-> times1, last |-> last2, best |-> best2,
                           finished |-> lane.finished \/ fin],
                 s |-> IF fin THEN f.s ELSE s,
                 calls |-> IF fin THEN f.calls ELSE <<>>]
        ELSE
            LET index == sensor - 1
                \* tail is a fresh array, not stored, when the lane has no lap yet
                times1 == IF Len(times) > 0
                          THEN [times EXCEPT ![Len(times)] = SetAt(tail, index, time)]
                          ELSE times
                lasti == JsSub(time, At(tail, index - 1))
            IN  [lane |-> [times |-> times1,
                           last |-> SetAt(lane.last, index, lasti),
                           best |-> SetAt(lane.best, index,
                                          JsMin(lasti, JsOr(At(lane.best, index), Infinity))),
                           finished |-> lane.finished],
                 s |-> s, calls |-> <<>>]

\* the Entry built from a lane's scan state (the fields the ranking reads)
Entry(id, lane) ==
    LET times == lane.times
        curr == IF Len(times) > 0 THEN times[Len(times)] ELSE <<>>
    IN  [id |-> id,
         time |-> At(curr, 0),
         laps |-> IF Len(times) # 0 THEN Len(times) - 1 ELSE 0,
         best0 |-> At(lane.best, 0),
         finished |-> lane.finished]

\* ---------------------------------------------------------------- ranking
numCompare(lhs, rhs) ==
    LET r == JsSub(lhs, rhs)
    IN  IF ~IsNaN(r) THEN r
        ELSE IF IsNaN(lhs) THEN (IF IsNaN(rhs) THEN 0 ELSE 1)
        ELSE 0 - 1

timeCompare(lhs, rhs) == JsSub(JsOr(lhs.best0, Infinity), JsOr(rhs.best0, Infinity))

\* variants of raceCompare: without the time, without the lane id
raceCompareLapsOnly(lhs, rhs) == JsOr(rhs.laps - lhs.laps, lhs.id - rhs.id)

raceCompareNoId(lhs, rhs) == JsOr(rhs.laps - lhs.laps, numCompare(lhs.time, rhs.time))

raceCompare(lhs, rhs) ==
    JsOr(JsOr(rhs.laps - lhs.laps, numCompare(lhs.time, rhs.time)), lhs.id - rhs.id)

COMPARE(mode, lhs, rhs) ==
    IF mode = "race" THEN raceCompare(lhs, rhs) ELSE timeCompare(lhs, rhs)

\* Array.prototype.sort: stable; a comparator result that is NaN counts as 0
RECURSIVE InsertSorted(_, _, _)
InsertSorted(mode, sorted, e) ==
    IF sorted = <<>> THEN <<e>>
    ELSE LET l == sorted[Len(sorted)]
         IN  IF JsGt(COMPARE(mode, l, e), 0)
             THEN Append(InsertSorted(mode, SubSeq(sorted, 1, Len(sorted) - 1), e), l)
             ELSE Append(sorted, e)

RECURSIVE Sort(_, _)
Sort(mode, cars) ==
    IF cars = <<>> THEN <<>>
    ELSE InsertSorted(mode, Sort(mode, SubSeq(cars, 1, Len(cars) - 1)), cars[Len(cars)])

\* the entries of the ranking scan's array, by ascending index (lane id)
RECURSIVE GridEntries(_, _, _)
GridEntries(ls, active, i) ==
    IF i > 7 THEN <<>>
    ELSE (IF HasBit(active, i) THEN <<Entry(i, ls[i])>> ELSE <<>>)
         \o GridEntries(ls, active, i + 1)

\* the map of Session.ranking: filter out unpaid cars, sort
RankingMap(ls, s, o) ==
    Sort(o.mode, SelectSeq(GridEntries(ls, s.active, 0),
                           LAMBDA car : ~isCarMaskedByPayment(s, car.id)))

\* ---------------------------------------------------------- configuration
\* raw counter values of the hardware, wall-clock readings
RawTimes == {k * TIMER_INTERVAL : k \in 0 .. MaxRaw}

Clock == {k * TIMER_INTERVAL : k \in 0 .. MaxNow}

\* RmsPage.calculateUnpaidCarsMask
calculateUnpaidCarsMask(cs) ==
    IF ~cs.enabled THEN 0
    ELSE IF ~cs.connected THEN 0
    ELSE BitsToInt({i \in 0 .. 5 : ~hasCarPaid(cs, i + 1)})

\* ExternalApiService.markCoinsAsConsumed, reached through CarSyncService
markCoinsAsConsumed(cs, carIds) ==
    [cs EXCEPT !.creditCounters =
        [c \in DOMAIN @ |-> IF c \in carIds /\ c \in cs.cars
                            THEN (IF @[c] - 1 > 0 THEN @[c] - 1 ELSE 0) ELSE @[c]]]

\* the effect of the commands a handler issued
RECURSIVE ApplyCalls(_, _, _)
ApplyCalls(cs, m, cmds) ==
    IF cmds = <<>> THEN [cs |-> cs, cuMask |-> m]
    ELSE LET c == Head(cmds)
         IN  IF c.cmd = "setMask" THEN ApplyCalls(cs, c.arg, Tail(cmds))
             ELSE IF c.cmd = "markCoinsAsConsumed"
             THEN ApplyCalls(markCoinsAsConsumed(cs, BitSet(c.arg)), m, Tail(cmds))
             ELSE ApplyCalls(cs, m, Tail(cmds))

Pushed(cmds) == \E k \in 1 .. Len(cmds) : cmds[k].cmd = "setMask"

\* the car ids (as a mask of 1-based ids) a handler passed to
\* carSync.markCoinsAsConsumed, Null when it did not call it
Consumed(cmds) ==
    IF \E k \in 1 .. Len(cmds) : cmds[k].cmd = "markCoinsAsConsumed"
    THEN cmds[CHOOSE k \in 1 .. Len(cmds) : cmds[k].cmd = "markCoinsAsConsumed"].arg
    ELSE Null

\* whether a handler called carSync.blockAllActiveCars
BlockedAll(cmds) == \E k \in 1 .. Len(cmds) : cmds[k].cmd = "blockAllActiveCars"

Op(name, id, time, sensor, cmds) ==
    [name |-> name, id |-> id, time |-> time, sensor |-> sensor, pushed |-> Pushed(cmds),
     repeat |-> FALSE, emitted |-> Null,
     consumed |-> Consumed(cmds), blockedAll |-> BlockedAll(cmds)]

\* the timer event (id, raw, sensor), after the operation last
TimerOp(last, id, raw, sensor, cmds, emitted) ==
    [Op("timer", id, raw, sensor, cmds) EXCEPT
        !.repeat = last.name = "timer" /\ last.id = id /\ last.time = raw
                   /\ last.sensor = sensor,
        !.emitted = emitted]

\* ------------------------------------------------------------ initial state
InitSession(o, cs) ==
    [mask |-> InitialMask(o), realMask |-> Null, unpaidMask |-> 0,
     active |-> BitsToInt(InitialGrid(o, cs)), autoBlockedCars |-> {},
     coinsConsumed |-> FALSE, started |-> FALSE, stopped |-> FALSE,
     manuallyStopped |-> FALSE, finished |-> FALSE, yellowFlag |-> FALSE,
     countdown |-> o.time]

\* the state after new Session(cu, o, carSync) and the subscription of its
\* ranking, with the payment service in state cs
InitSessionLanes(o, cs, lane) ==
    /\ options = o
    /\ carSync = cs
    /\ session = InitSession(options, carSync)
    /\ timerAcc = TimerSeed
    /\ lanes = [i \in Bits |-> lane]
    /\ ranking = RankingMap(lanes, session, options)
    /\ cuMask = session.mask
    /\ events = 0
    /\ controls = 0
    /\ cuStart = 1
    /\ cuState = "connected"
    /\ ctor = [pc |-> "done", first |-> 6, mask |-> {}]
    /\ op = Op("new", Null, 0, 0, <<Call("setMask", session.mask)>>)

\* the same with the lanes as the times scan seeds them
InitSessionWith(o, cs) == InitSessionLanes(o, cs, NewLane)

\* the same, seen from the page before its start-light subscription has fired
InitWith(o, cs) ==
    /\ InitSessionWith(o, cs)
    /\ page = [lightsSeen |-> FALSE]

\* a race session; the payment API is on and has answered, no car is active
\* yet, and the credit counters are the ones loaded from storage
Init ==
    \E credit \in [Cars -> 0 .. MaxCredit] :
        InitWith(RaceOptions,
                 [enabled |-> TRUE, connected |-> TRUE, creditCounters |-> credit,
                  cars |-> Cars, active |-> {}, unblocked |-> {}])

\* ------------------------------------------------------------------ actions
\* the hardware reports the timer event (id, raw, sensor) at wall clock now:
\* mask filter, timer normalizer, the lane's times scan (with finish), the
\* entry map and the ranking
TimerPipeline(id, raw, sensor, now) ==
    /\ events' = events + 1
    /\ UNCHANGED <<options, cuState, ctor, controls, cuStart>>
    /\ IF ~timerFilter(session, id)
       THEN /\ op' = TimerOp(op, id, raw, sensor, <<>>, Null)
            /\ UNCHANGED <<session, timerAcc, lanes, ranking, cuMask, carSync>>
       ELSE LET acc == timerScan(timerAcc, raw, now)
                s0 == [session EXCEPT !.active = BitOr(@, Pow2(id))]
                r == timesScan(lanes[id], s0, carSync, options, id, acc.time, sensor)
                e == ApplyCalls(carSync, cuMask, r.calls)
            IN  /\ timerAcc' = acc
                /\ lanes' = [lanes EXCEPT ![id] = r.lane]
                /\ session' = r.s
                /\ op' = TimerOp(op, id, raw, sensor, r.calls, r.s.unpaidMask)
                /\ carSync' = e.cs
                /\ cuMask' = e.cuMask
                /\ ranking' = RankingMap(lanes', session', options)

\* the timer event, with no subscriber of the page listening to the grid
TimerStep(id, raw, sensor, now) ==
    /\ TimerPipeline(id, raw, sensor, now)
    /\ UNCHANGED page

\* a start/finish-line crossing of the running race: the hardware counter and
\* the wall clock advance by two intervals per event
TimerEvent(id) ==
    /\ events < MaxEvents
    /\ TimerStep(id, events * 2 * TIMER_INTERVAL, 1, events * 2 * TIMER_INTERVAL)

\* a timer event of the single-lane track: any raw counter value, any sensor,
\* at a wall clock that does not run backwards
TrackEvent(raw, sensor, now) ==
    /\ events < MaxTrackEvents
    /\ IsNaN(timerAcc.then) \/ now >= timerAcc.then
    /\ TimerStep(0, raw, sensor, now)

\* RmsPage.toggleYellowFlag
ToggleYellowFlag ==
    LET r == toggleYellowFlag(session)
        e == ApplyCalls(carSync, cuMask, r.calls)
    IN  /\ controls < MaxControl
        /\ controls' = controls + 1
        /\ session' = r.s
        /\ cuMask' = e.cuMask
        /\ op' = Op("toggleYellowFlag", Null, 0, 0, r.calls)
        /\ UNCHANGED <<options, cuState, ctor, timerAcc, lanes, ranking, carSync, events,
                       cuStart, page>>

\* Session.stop
StopSession ==
    LET s0 == [session EXCEPT !.stopped = TRUE, !.manuallyStopped = TRUE]
        r == finish(s0, carSync, Null)
        e == ApplyCalls(carSync, cuMask, r.calls)
    IN  /\ controls < MaxControl
        /\ controls' = controls + 1
        /\ session' = r.s
        /\ cuMask' = e.cuMask
        /\ carSync' = e.cs
        /\ op' = Op("stop", Null, 0, 0, r.calls)
        /\ UNCHANGED <<options, cuState, ctor, timerAcc, lanes, ranking, events, cuStart>>

\* RmsPage.cancelSession: Session.stop
Stop ==
    /\ StopSession
    /\ UNCHANGED page

\* RmsPage's light-sequence subscription fires: the lights go 1 -> 2, once
lightSequence(v) ==
    options.mode # "practice" /\ ~page.lightsSeen /\ cuStart = 1 /\ v = 2

\* the hardware reports a new start-light state v.  In subscription order:
\* the reset stream of Session.ranking (push the mask, re-emit the ranking),
\* then RmsPage's light-sequence subscription (1 -> 2: apply the unpaid mask,
\* once), then RmsPage's wait for the lights to go off (session.start, once)
StartLightSession(v) ==
    LET reset == IF v # 0 THEN <<Call("setMask", session.mask)>> ELSE <<>>
        lights == lightSequence(v)
        unpaidMask == calculateUnpaidCarsMask(carSync)
        r == IF lights /\ unpaidMask > 0
             THEN applyUnpaidMask(session, unpaidMask)
             ELSE [s |-> session, calls |-> <<>>]
        go == options.mode # "practice" /\ cuStart # 0 /\ v = 0
        e == ApplyCalls(carSync, cuMask, reset \o r.calls)
    IN  /\ controls < MaxControl
        /\ controls' = controls + 1
        /\ v # cuStart
        /\ cuStart' = v
        /\ ranking' = IF v # 0 THEN RankingMap(lanes, session, options) ELSE ranking
        /\ session' = [r.s EXCEPT !.started = @ \/ go]
        /\ cuMask' = e.cuMask
        /\ op' = [Op(IF lights /\ unpaidMask > 0 THEN "applyUnpaidMask" ELSE "start",
                     v, 0, 0, reset \o r.calls)
                  EXCEPT !.emitted = IF v # 0 /\ session.active # 0
                                     THEN session.unpaidMask ELSE Null]
        /\ UNCHANGED <<options, cuState, ctor, timerAcc, lanes, carSync, events>>

\* the new start-light state, with no event subscriber of the page
StartLight(v) ==
    /\ StartLightSession(v)
    /\ page' = [page EXCEPT !.lightsSeen = @ \/ lightSequence(v)]

\* variant of the countdown's filter that ignores options.pause
countdownFilterStarted(s, o, start, state) == s.started

\* the filter of Session.timer on [tick, start, state]
countdownFilter(s, o, start, state) ==
    s.started /\ (~o.pause \/ (start = 0 /\ state = "connected"))

\* variant of Tick without the tap that ends the session at zero
TickNoTap ==
    LET pass == countdownFilter(session, options, cuStart, cuState)
        time == JsMax(0, session.countdown - TIMER_INTERVAL)
    IN  /\ controls < MaxControl
        /\ controls' = controls + 1
        /\ options.time # 0
        /\ session' = IF pass THEN [session EXCEPT !.countdown = time] ELSE session
        /\ op' = Op("tick", Null, 0, 0, <<>>)
        /\ UNCHANGED <<options, cuState, ctor, timerAcc, lanes, ranking, cuMask, carSync,
                       events, cuStart, page>>

\* one period of the countdown interval of Session.timer: the filter, the
\* scan and the tap.  A period the filter drops changes nothing
TickSession ==
    LET pass == countdownFilter(session, options, cuStart, cuState)
        time == JsMax(0, session.countdown - TIMER_INTERVAL)
        s0 == [session EXCEPT !.countdown = time]
        r == IF ~pass THEN [s |-> session, calls |-> <<>>]
             ELSE IF time = 0
             THEN finish([s0 EXCEPT !.stopped = TRUE], carSync, Null)
             ELSE [s |-> s0, calls |-> <<>>]
        e == ApplyCalls(carSync, cuMask, r.calls)
    IN  /\ controls < MaxControl
        /\ controls' = controls + 1
        /\ options.time # 0
        /\ session' = r.s
        /\ cuMask' = e.cuMask
        /\ carSync' = e.cs
        /\ op' = Op("tick", Null, 0, 0, r.calls)
        /\ UNCHANGED <<options, cuState, ctor, timerAcc, lanes, ranking, events, cuStart>>

\* the period, with no subscriber of the page listening to the countdown
Tick ==
    /\ TickSession
    /\ UNCHANGED page

\* variant of CuStateChange without the reset stream: 'connected' pushes nothing
CuStateChangeNoReset(st) ==
    /\ controls < MaxControl
    /\ controls' = controls + 1
    /\ st # cuState
    /\ cuState' = st
    /\ op' = Op("state", Null, 0, 0, <<>>)
    /\ UNCHANGED <<options, ctor, session, timerAcc, lanes, ranking, cuMask, carSync,
                   events, cuStart, page>>

\* the hardware reports a new connection state.  'connected' runs the reset
\* stream of Session.ranking: push the mask, re-emit the ranking
CuStateChange(st) ==
    LET reset == IF st = "connected" THEN <<Call("setMask", session.mask)>> ELSE <<>>
        e == ApplyCalls(carSync, cuMask, reset)
    IN  /\ controls < MaxControl
        /\ controls' = controls + 1
        /\ st # cuState
        /\ cuState' = st
        /\ cuMask' = e.cuMask
        /\ ranking' = IF st = "connected" THEN RankingMap(lanes, session, options)
                      ELSE ranking
        /\ op' = [Op("state", Null, 0, 0, reset)
                  EXCEPT !.emitted = IF st = "connected" /\ session.active # 0
                                     THEN session.unpaidMask ELSE Null]
        /\ UNCHANGED <<options, ctor, session, timerAcc, lanes, carSync, events, cuStart,
                       page>>

\* a consumer subscribes to Session.timer while it is running: share() replays
\* nothing, startWith(options.time) hands the subscriber its first value
SubscribeTimer ==
    /\ controls < MaxControl
    /\ controls' = controls + 1
    /\ options.time # 0
    /\ op' = Op("subscribeTimer", Null, options.time, 0, <<>>)
    /\ UNCHANGED <<options, cuState, ctor, session, timerAcc, lanes, ranking, cuMask,
                   carSync, events, cuStart, page>>

\* a poll of the payment API returns a changed record for car c: a coin was
\* inserted, the car became active, or its manually_unblocked flag flipped.
\* A newly active car joins the roster (dynamicCarEntries of createGrid)
ApiPoll(c, change) ==
    LET cs0 == [carSync EXCEPT !.connected = TRUE, !.cars = Cars]
        cs1 == IF change = "coin"
               THEN [cs0 EXCEPT !.creditCounters[c] = @ + 1]
               ELSE IF change = "active" THEN [cs0 EXCEPT !.active = @ \cup {c}]
               ELSE [cs0 EXCEPT !.unblocked =
                        IF c \in @ THEN @ \ {c} ELSE @ \cup {c}]
        joins == change = "active" /\ ~HasBit(session.active, c - 1)
    IN  /\ carSync.enabled
        /\ controls < MaxControl
        /\ change = "coin" => carSync.creditCounters[c] < MaxCredit
        /\ change = "active" => c \notin carSync.active
        /\ controls' = controls + 1
        /\ carSync' = cs1
        /\ session' = IF joins THEN [session EXCEPT !.active = BitOr(@, Pow2(c - 1))]
                      ELSE session
        /\ ranking' = IF joins THEN RankingMap(lanes, session', options) ELSE ranking
        /\ op' = [Op("poll", c, 0, 0, <<>>)
                  EXCEPT !.emitted = IF joins THEN session.unpaidMask ELSE Null]
        /\ UNCHANGED <<options, cuState, ctor, timerAcc, lanes, cuMask, events, cuStart, page>>

Next ==
    \/ \E id \in Lanes : TimerEvent(id)
    \/ ToggleYellowFlag
    \/ Stop
    \/ \E v \in 0 .. 2 : StartLight(v)
    \/ \E c \in Cars, change \in {"coin", "active", "unblock"} : ApiPoll(c, change)

Spec == Init /\ [][Next]_vars

\* --------------------------------------------------- the single-lane track
\* a practice session with one paid car on lane 0 and no control operation:
\* the timer normalizer and the lane's times scan under any event sequence
InitTrack ==
    InitWith(PracticeOptions,
             [enabled |-> TRUE, connected |-> TRUE,
              creditCounters |-> [c \in Cars |-> MaxCredit],
              cars |-> Cars, active |-> {}, unblocked |-> {}])

NextTrack ==
    \E raw \in RawTimes, sensor \in Sensors, now \in Clock : TrackEvent(raw, sensor, now)

SpecTrack == InitTrack /\ [][NextTrack]_vars

\* ------------------------------------------------------ the lap scenario
\* raw counter values (ms) of the single-lane track without wraparound: gaps
\* below, at and above minLapTime, and the laps of 42 and 43 seconds
LapTimes == {0, 400, 500, 1000, 42000, 42500, 85000, 85600}

\* a timer event of sensor 1 or 2 on lane 0; the hardware counter runs
\* forward, the wall clock with it
LapEvent(raw, sensor) ==
    /\ events < MaxTrackEvents
    /\ timerAcc.prev = Infinity \/ raw > timerAcc.prev
    /\ TimerStep(0, raw, sensor, raw)

NextLaps == \E raw \in LapTimes, sensor \in {1, 2} : LapEvent(raw, sensor)

SpecLaps == InitTrack /\ [][NextLaps]_vars

\* ------------------------------------------- the page's best-time events
\* RmsPage.startSession, first branch of the events merge.  The array best is
\* one per session, shared by the lanes; pairwise() drops each lane's first
\* entry.  A lane's entry is emitted for every timer event that passes the
\* mask filter (fuel and pit have reported, and their later reports re-emit
\* an entry with the same best times, which changes nothing here)
BestSeed == <<Infinity, Infinity, Infinity, Infinity>>

\* (time || Infinity) < best[index]
bestImproved(best, lane, index) ==
    JsLt(JsOr(At(lane.best, index), Infinity), best[index + 1])

\* variant of bestEvents that does not wait for the third lap
bestEventsAnyLap(best, id, lane) ==
    {[name |-> IF index = 0 THEN "bestlap" ELSE "bests", index |-> index, id |-> id] :
        index \in {i \in 0 .. 3 : bestImproved(best, lane, i)}}

\* the events pushed for the entry of lane id: 'bestlap', 'bests1', ...
bestEvents(best, id, lane) ==
    {[name |-> IF index = 0 THEN "bestlap" ELSE "bests", index |-> index, id |-> id] :
        index \in {i \in 0 .. 3 : bestImproved(best, lane, i)
                                      /\ Entry(id, lane).laps >= 3}}

\* the array best after the entry
bestAfter(best, lane) ==
    [k \in 1 .. 4 |-> IF bestImproved(best, lane, k - 1)
                       THEN At(lane.best, k - 1) ELSE best[k]]

InitEvents ==
    /\ InitSessionWith(PracticeOptions,
                       [enabled |-> TRUE, connected |-> TRUE,
                        creditCounters |-> [c \in Cars |-> MaxCredit],
                        cars |-> Cars, active |-> {}, unblocked |-> {}])
    /\ page = [lightsSeen |-> FALSE, best |-> BestSeed, seen |-> {}, events |-> {}]

\* a timer event of sensor 1 or 2 on lane id, the hardware counter and the
\* wall clock two intervals after the previous event, and what the page
\* derives from the entry the lane emits
GridEvent(id, sensor) ==
    /\ events < MaxGridEvents
    /\ TimerPipeline(id, events * 2 * TIMER_INTERVAL, sensor, events * 2 * TIMER_INTERVAL)
    /\ page' = IF ~timerFilter(session, id) THEN [page EXCEPT !.events = {}]
               ELSE IF id \notin page.seen
               THEN [page EXCEPT !.seen = @ \cup {id}, !.events = {}]
               ELSE [page EXCEPT !.best = bestAfter(@, lanes'[id]),
                                 !.events = bestEvents(page.best, id, lanes'[id])]

NextEvents == \E id \in Lanes, sensor \in {1, 2} : GridEvent(id, sensor)

SpecEvents == InitEvents /\ [][NextEvents]_vars

\* ------------------------------------------- the page's session events
\* RmsPage.startSession, the branches 'alldone', 'timeout', 'fivelaps' and
\* 'finallap' of the events merge, each closed by take(1).  The page record
\* holds what the operators of these branches keep: whether Session.ranking
\* has emitted (combineLatestWith waits for it), the finished flag read at the
\* previous emission of Session.timer (pairwise), the accumulator of the
\* currentLap scan, the branches that have fired, and the events the latest
\* step pushed
NotifySeed(grid) ==
    [lightsSeen |-> FALSE, rankingSeen |-> grid # {}, prevFin |-> FALSE,
     currentLap |-> 0, taken |-> {}, events |-> {}]

\* filter(...), take(1), map(() => [name, null])
Notify(p, name, cond) ==
    IF cond /\ name \notin p.taken
    THEN [p EXCEPT !.taken = @ \cup {name}, !.events = @ \cup {name}]
    ELSE p

\* variant of allFinished that does not read the session's finished flag
allFinishedCars(rank, fini) == \A k \in 1 .. Len(rank) : rank[k].finished

\* Session.allFinished: fini && cars.every(e => e.finished)
allFinished(rank, fini) == fini /\ \A k \in 1 .. Len(rank) : rank[k].finished

\* the branch 'alldone' when Session.ranking emits rank (seen is true) or
\* Session.finished emits fini (seen tells whether the ranking has emitted)
observeAllFinished(p, seen, rank, fini) ==
    Notify([p EXCEPT !.rankingSeen = seen], "alldone", seen /\ allFinished(rank, fini))

\* variant of the currentLap scan that follows the latest entry
currentLapLatest(current, e, fini) ==
    IF fini \/ IsNaN(e.time) THEN e.laps ELSE e.laps + 1

\* the scan of Session.currentLap on the entry e
currentLapScan(current, e, fini) ==
    IF current > e.laps THEN current
    ELSE IF fini \/ IsNaN(e.time) THEN e.laps
    ELSE e.laps + 1

\* variant of observeLapcount with 'fivelaps' under any lap limit
observeLapcountAnyLimit(p, o, e, fini) ==
    LET count == currentLapScan(p.currentLap, e, fini)
        changed == count # p.currentLap
        p1 == Notify([p EXCEPT !.currentLap = count], "fivelaps",
                     changed /\ o.laps # 0 /\ count = o.laps - 4 /\ ~fini)
    IN  Notify(p1, "finallap", changed /\ o.laps # 0 /\ count = o.laps /\ ~fini)

\* Session.currentLap and RmsPage.lapcount on the entry e, and the branches
\* 'fivelaps' and 'finallap' behind distinctUntilChanged
observeLapcount(p, o, e, fini) ==
    LET count == currentLapScan(p.currentLap, e, fini)
        changed == count # p.currentLap
        p1 == Notify([p EXCEPT !.currentLap = count], "fivelaps",
                     changed /\ o.laps >= FiveLapsLimit /\ count = o.laps - 4 /\ ~fini)
    IN  Notify(p1, "finallap", changed /\ o.laps # 0 /\ count = o.laps /\ ~fini)

\* the branch 'timeout' on the emission time of Session.timer: the time of
\* the current emission, the finished flag read at the previous one
observeTimer(p, time, fini) ==
    [Notify(p, "timeout", time = 0 /\ ~p.prevFin) EXCEPT !.prevFin = fini]

\* a race with a lap limit or a countdown, or both; no car is active yet
InitNotify ==
    \E limit \in {<<1, 0>>, <<0, TIMER_INTERVAL>>, <<1, TIMER_INTERVAL>>},
       credit \in [Cars -> 0 .. MaxCredit + 1] :
        /\ InitSessionWith([RaceOptions EXCEPT !.laps = limit[1], !.time = limit[2]],
                           [enabled |-> TRUE, connected |-> TRUE, creditCounters |-> credit,
                            cars |-> Cars, active |-> {}, unblocked |-> {}])
        /\ page = NotifySeed({})

\* a start/finish-line crossing: the entry of the lane reaches the ranking,
\* Session.allFinished and Session.currentLap
NotifyCrossing(id) ==
    /\ TimerPipeline(id, events * 2 * TIMER_INTERVAL, 1, events * 2 * TIMER_INTERVAL)
    /\ page' = LET p0 == [page EXCEPT !.events = {}]
               IN  IF ~timerFilter(session, id) THEN p0
                   ELSE observeLapcount(
                            observeAllFinished(p0, TRUE, ranking', session.finished),
                            options, Entry(id, lanes'[id]), session.finished)

NotifyTimerEvent(id) ==
    /\ events < MaxEvents
    /\ NotifyCrossing(id)

\* RmsPage.cancelSession: finish() ends with finished.next(true)
NotifyStop ==
    /\ StopSession
    /\ page' = observeAllFinished([page EXCEPT !.events = {}], page.rankingSeen, ranking, TRUE)

\* a new start-light state: a state other than 0 re-emits the ranking
NotifyStartLight(v) ==
    /\ StartLightSession(v)
    /\ page' = LET p0 == [page EXCEPT !.events = {}, !.lightsSeen = @ \/ lightSequence(v)]
               IN  IF op'.emitted # Null
                   THEN observeAllFinished(p0, TRUE, ranking', session'.finished)
                   ELSE p0

\* one period of the countdown: the tap (finish() at zero) runs before the
\* subscribers of Session.timer see the time
NotifyTick ==
    /\ TickSession
    /\ page' = LET p0 == [page EXCEPT !.events = {}]
                   p1 == IF session'.countdown = 0
                         THEN observeAllFinished(p0, page.rankingSeen, ranking, TRUE)
                         ELSE p0
               IN  IF ~countdownFilter(session, options, cuStart, cuState) THEN p0
                   ELSE observeTimer(p1, session'.countdown, session'.finished)

NextNotify ==
    \/ \E id \in Lanes : NotifyTimerEvent(id)
    \/ NotifyStop
    \/ \E v \in 0 .. 2 : NotifyStartLight(v)
    \/ NotifyTick

SpecNotify == InitNotify /\ [][NextNotify]_vars

\* a race with a lap limit at the 'fivelaps' threshold or just below it, both
\* cars paid, and no countdown
InitLapCount ==
    \E laps \in {FiveLapsLimit - 1, FiveLapsLimit} :
        /\ InitSessionWith([RaceOptions EXCEPT !.laps = laps],
                           [enabled |-> TRUE, connected |-> TRUE,
                            creditCounters |-> [c \in Cars |-> MaxCredit],
                            cars |-> Cars, active |-> {}, unblocked |-> {}])
        /\ page = NotifySeed({})

LapCountEvent(id) ==
    /\ events < MaxLapEvents
    /\ NotifyCrossing(id)

NextLapCount ==
    \/ \E id \in Lanes : LapCountEvent(id)
    \/ NotifyStop

SpecLapCount == InitLapCount /\ [][NextLapCount]_vars

\* ------------------------------------------------- three lanes, every mode
\* a session of each mode without lap limit or countdown on three lanes, and
\* no control operation: the leaderboards the ranking emits.  Two lanes may
\* cross a sensor in the same millisecond
RankLanes == {0, 1, 2}

InitRank ==
    \E mode \in {"practice", "qualifying", "race"},
       credit \in [{id + 1 : id \in RankLanes} -> 0 .. MaxCredit] :
        InitWith([RaceOptions EXCEPT !.mode = mode, !.laps = 0],
                 [enabled |-> TRUE, connected |-> TRUE, creditCounters |-> credit,
                  cars |-> DOMAIN credit, active |-> {}, unblocked |-> {}])

RankEvent(id, step) ==
    LET raw == IF IsInf(timerAcc.prev) THEN 0
               ELSE timerAcc.prev + step * 2 * TIMER_INTERVAL
    IN  /\ events < MaxRankEvents
        /\ TimerStep(id, raw, 1, raw)

NextRank == \E id \in RankLanes, step \in {0, 1} : RankEvent(id, step)

SpecRank == InitRank /\ [][NextRank]_vars

\* ------------------------------------------------------ a timed session
\* a qualifying session without lap limit whose countdown lasts one period
\* of the interval or one and a half, with or without options.pause
InitTimed ==
    \E credit \in [Cars -> 0 .. MaxCredit], pause \in BOOLEAN,
       time \in {TIMER_INTERVAL, TIMER_INTERVAL + TIMER_INTERVAL \div 2} :
        InitWith([RaceOptions EXCEPT !.mode = "qualifying", !.laps = 0,
                                     !.time = time,
                                     !.pause = pause],
                 [enabled |-> TRUE, connected |-> TRUE, creditCounters |-> credit,
                  cars |-> Cars, active |-> {}, unblocked |-> {}])

NextTimed ==
    \/ \E id \in Lanes : TimerEvent(id)
    \/ Stop
    \/ \E v \in 0 .. 2 : StartLight(v)
    \/ \E st \in {"connected", "disconnected"} : CuStateChange(st)
    \/ Tick
    \/ SubscribeTimer

SpecTimed == InitTimed /\ [][NextTimed]_vars

\* a race with or without lap limit and a countdown of one period, with and
\* without options.slotmode; a car may hold a credit more than one session
\* consumes
InitSlot ==
    \E credit \in [Cars -> 0 .. MaxCredit + 1], laps \in {0, 1}, slotmode \in BOOLEAN :
        InitWith([RaceOptions EXCEPT !.laps = laps, !.time = TIMER_INTERVAL,
                                     !.slotmode = slotmode],
                 [enabled |-> TRUE, connected |-> TRUE, creditCounters |-> credit,
                  cars |-> Cars, active |-> {}, unblocked |-> {}])

NextSlot ==
    \/ \E id \in Lanes : TimerEvent(id)
    \/ Stop
    \/ \E v \in 0 .. 2 : StartLight(v)
    \/ Tick

SpecSlot == InitSlot /\ [][NextSlot]_vars

\* ------------------------------------------------ payment API disabled
\* a race session while the payment API is disabled: nothing is polled, the
\* credit counters are the ones loaded from storage
InitDisabled ==
    \E credit \in [Cars -> 0 .. MaxCredit] :
        InitWith(RaceOptions,
                 [enabled |-> FALSE, connected |-> FALSE, creditCounters |-> credit,
                  cars |-> {}, active |-> {}, unblocked |-> {}])

NextDisabled ==
    \/ \E id \in Lanes : TimerEvent(id)
    \/ ToggleYellowFlag
    \/ Stop
    \/ \E v \in 0 .. 2 : StartLight(v)

SpecDisabled == InitDisabled /\ [][NextDisabled]_vars

\* ---------------------------------------------- a fixed set of unblocks
\* a race session with a lap limit in which the payment API reports nothing
\* new: the credit counters and the manually_unblocked flags of the cars are
\* those of the session's start
InitLimit ==
    \E credit \in [Cars -> 0 .. MaxCredit], unblocked \in SUBSET Cars :
        InitWith(RaceOptions,
                 [enabled |-> TRUE, connected |-> TRUE, creditCounters |-> credit,
                  cars |-> Cars, active |-> {}, unblocked |-> unblocked])

SpecLimit == InitLimit /\ [][NextDisabled]_vars

\* ------------------------------------------------------------ pit visits
\* Session.createGrid, the pit scan of each lane of the grid.  The lane
\* records hold, next to the state of the times scan, the accumulator of the
\* pit scan [pits, pit] and the lane's bit of the latest pit bitmask the
\* hardware reported (pitline).  distinctUntilChanged in front of the scan
\* lets a value pass that differs from pit
PitLane == [times |-> <<>>, last |-> <<>>, best |-> <<>>, finished |-> FALSE,
            pits |-> 0, pit |-> FALSE, pitline |-> FALSE]

\* ((mask & ~this.mask) & (1 << group.key)) != 0
inPit(s, pitmask, id) == HasBit(BitAnd(pitmask, BitNot(s.mask)), id)

\* the scan ([count], inpit) => [inpit ? count + 1 : count, inpit] behind
\* distinctUntilChanged
pitScan(lane, inpit) ==
    IF inpit = lane.pit THEN lane
    ELSE [lane EXCEPT !.pits = IF inpit THEN @ + 1 ELSE @, !.pit = inpit]

\* a race in which the payment API reports both cars active, so that both
\* lanes are in the grid from the start
InitPit ==
    \E credit \in [Cars -> 0 .. MaxCredit] :
        /\ InitSessionLanes(RaceOptions,
                            [enabled |-> TRUE, connected |-> TRUE, creditCounters |-> credit,
                             cars |-> Cars, active |-> Cars, unblocked |-> {}],
                            PitLane)
        /\ page = [lightsSeen |-> FALSE]

\* the pit bitmask the hardware reported last, over the lanes of the grid
reportedPits(ls) == BitsToInt({id \in Lanes : ls[id].pitline})

\* the hardware reports the pit bitmask pitmask: the pit scan of every lane
\* of the grid, the entry map and the ranking.  Only a bitmask that differs
\* from the one before is taken as a report
PitReport(pitmask) ==
    /\ events < MaxPitReports
    /\ pitmask # reportedPits(lanes)
    /\ events' = events + 1
    /\ lanes' = [id \in Bits |->
                    IF HasBit(session.active, id)
                    THEN [pitScan(lanes[id], inPit(session, pitmask, id))
                            EXCEPT !.pitline = HasBit(pitmask, id)]
                    ELSE lanes[id]]
    /\ ranking' = RankingMap(lanes', session, options)
    /\ op' = [Op("pit", Null, pitmask, 0, <<>>) EXCEPT !.emitted = session.unpaidMask]
    /\ UNCHANGED <<options, session, timerAcc, cuMask, carSync, controls, cuStart,
                   cuState, ctor, page>>

NextPit ==
    \/ \E pitmask \in {BitsToInt(l) : l \in SUBSET Lanes} : PitReport(pitmask)
    \/ ToggleYellowFlag
    \/ Stop
    \/ \E v \in 0 .. 2 : StartLight(v)

SpecPit == InitPit /\ [][NextPit]_vars

\* ---------------------------------------------------- the credit counters
\* variant of fetchData without the capture of the initial values
fetchDataNoCapture(cs, resp) ==
    LET prev(c) == IF c \in DOMAIN cs.previousCoinValues
                   THEN cs.previousCoinValues[c] ELSE 0
    IN  [cs EXCEPT
            !.isInitialized = TRUE,
            !.creditCounters =
                [c \in DOMAIN @ |-> IF c \in DOMAIN resp /\ resp[c] > prev(c)
                                    THEN @[c] + (resp[c] - prev(c)) ELSE @[c]],
            !.previousCoinValues =
                [c \in DOMAIN @ \cup DOMAIN resp |->
                    IF c \in DOMAIN resp THEN resp[c] ELSE @[c]],
            !.response = resp, !.cars = DOMAIN resp, !.connected = TRUE]

\* the tap of ExternalApiService.fetchData on the response resp, a map from
\* the ids of the reported cars to their coin_value
fetchData(cs, resp) ==
    LET captured == [c \in DOMAIN cs.previousCoinValues \cup DOMAIN resp |->
                        IF c \in DOMAIN resp THEN resp[c] ELSE cs.previousCoinValues[c]]
        previous == IF ~cs.isInitialized THEN captured ELSE cs.previousCoinValues
        prev(c) == IF c \in DOMAIN previous THEN previous[c] ELSE 0
    IN  [cs EXCEPT
            !.isInitialized = TRUE,
            !.creditCounters =
                [c \in DOMAIN @ |-> IF c \in DOMAIN resp /\ resp[c] > prev(c)
                                    THEN @[c] + (resp[c] - prev(c)) ELSE @[c]],
            !.previousCoinValues =
                [c \in DOMAIN previous \cup DOMAIN resp |->
                    IF c \in DOMAIN resp THEN resp[c] ELSE previous[c]],
            !.response = resp, !.cars = DOMAIN resp, !.connected = TRUE]

\* the possible responses of the payment API
Responses == UNION {[S -> 0 .. MaxCoin] : S \in SUBSET Cars}

\* the service after its construction: the counters loaded from storage, no
\* response received yet
InitCredit ==
    \E credit \in [Cars -> 0 .. MaxCredit] :
        InitWith(RaceOptions,
                 [enabled |-> TRUE, connected |-> FALSE, creditCounters |-> credit,
                  cars |-> {}, active |-> {}, unblocked |-> {},
                  isInitialized |-> FALSE, previousCoinValues |-> <<>>,
                  response |-> <<>>])

\* a poll of the payment API answers with resp
FetchData(resp) ==
    /\ controls < MaxControl
    /\ controls' = controls + 1
    /\ carSync' = fetchData(carSync, resp)
    /\ op' = Op("poll", Null, 0, 0, <<>>)
    /\ UNCHANGED <<options, cuState, ctor, session, timerAcc, lanes, ranking, cuMask,
                   events, cuStart, page>>

\* stopPolling() and startPolling(), as on a change of the configuration
RestartPolling ==
    /\ controls < MaxControl
    /\ controls' = controls + 1
    /\ carSync' = [carSync EXCEPT !.isInitialized = FALSE, !.connected = FALSE]
    /\ op' = Op("startPolling", Null, 0, 0, <<>>)
    /\ UNCHANGED <<options, cuState, ctor, session, timerAcc, lanes, ranking, cuMask,
                   events, cuStart, page>>

\* markCoinsAsConsumed(carIds), the signal of a finished session
MarkCoinsAsConsumed(carIds) ==
    /\ controls < MaxControl
    /\ controls' = controls + 1
    /\ carSync' = markCoinsAsConsumed(carSync, carIds)
    /\ op' = Op("markCoinsAsConsumed", Null, 0, 0,
                <<Call("markCoinsAsConsumed", BitsToInt(carIds))>>)
    /\ UNCHANGED <<options, cuState, ctor, session, timerAcc, lanes, ranking, cuMask,
                   events, cuStart, page>>

NextCredit ==
    \/ \E resp \in Responses : FetchData(resp)
    \/ RestartPolling
    \/ \E carIds \in SUBSET Cars \ {{}} : MarkCoinsAsConsumed(carIds)

SpecCredit == InitCredit /\ [][NextCredit]_vars

\* ------------------------------------------------------- the constructor
\* variant of gridMask that passes the enabled lanes without options.drivers too
gridMaskAlways(o, mask) == BitNot(mask)

\* the mask argument the constructor hands to createGrid
gridMask(o, mask) == IF o.drivers # 0 THEN BitNot(mask) ELSE 0

\* the lanes of createGrid's init array: one placeholder per bit of its mask
\* argument, and the cars the payment service reports active
initLanes(mask, cs) == BitSet(mask) \cup {c - 1 : c \in {a \in cs.active : a - 1 \in Bits}}

\* new Session(cu, o, carSync) after its first assignment to this.mask
InitConstruct ==
    \E drivers \in 0 .. MaxDrivers, auto \in BOOLEAN, pace \in BOOLEAN,
       active \in SUBSET Cars :
        LET o == [RaceOptions EXCEPT !.drivers = drivers, !.auto = auto, !.pace = pace]
        IN  /\ options = o
            /\ carSync = [enabled |-> TRUE, connected |-> TRUE,
                          creditCounters |-> [c \in Cars |-> 0],
                          cars |-> Cars, active |-> active, unblocked |-> {}]
            /\ session = InitSession([o EXCEPT !.drivers = 0],
                                     [carSync EXCEPT !.active = {}])
            /\ ctor = [pc |-> IF drivers # 0 THEN "createMask" ELSE "createGrid",
                       first |-> drivers, mask |-> {}]
            /\ timerAcc = TimerSeed
            /\ lanes = [i \in Bits |-> NewLane]
            /\ ranking = <<>>
            /\ cuMask = Null
            /\ events = 0
            /\ controls = 0
            /\ cuStart = 1
            /\ cuState = "connected"
            /\ page = [lightsSeen |-> FALSE]
            /\ op = Op("new", Null, 0, 0, <<>>)

\* one iteration of createMask(options.drivers, 6): mask |= (1 << first); ++first
\* ctor.mask holds the positions of the bits set so far.  A value of first
\* beyond 6 + ShiftWidth is represented by the value ShiftWidth lower: it sets
\* the same bit and, like it, lies beyond last
CreateMaskStep ==
    /\ ctor.pc = "createMask"
    /\ ctor.first # 6
    /\ ctor' = [ctor EXCEPT !.mask = @ \cup {ctor.first % ShiftWidth},
                            !.first = IF @ + 1 > 6 + ShiftWidth
                                      THEN @ + 1 - ShiftWidth ELSE @ + 1]
    /\ UNCHANGED <<options, session, timerAcc, lanes, ranking, cuMask, carSync, events,
                   controls, cuStart, cuState, page, op>>

\* createMask leaves its loop and returns: this.mask |= createMask(...)
CreateMaskReturn ==
    /\ ctor.pc = "createMask"
    /\ ctor.first = 6
    /\ session' = [session EXCEPT !.mask = BitOr(@, BitsToInt(ctor.mask))]
    /\ ctor' = [ctor EXCEPT !.pc = "createGrid"]
    /\ UNCHANGED <<options, timerAcc, lanes, ranking, cuMask, carSync, events, controls,
                   cuStart, cuState, page, op>>

\* this.grid = this.createGrid(...), with the lanes of its init array entered
\* in this.active as the subscription of the grid does
CreateGrid ==
    /\ ctor.pc = "createGrid"
    /\ session' = [session EXCEPT
                     !.active = BitsToInt(initLanes(gridMask(options, session.mask), carSync))]
    /\ ctor' = [ctor EXCEPT !.pc = "setMask"]
    /\ UNCHANGED <<options, timerAcc, lanes, ranking, cuMask, carSync, events, controls,
                   cuStart, cuState, page, op>>

\* the end of the constructor, this.cu.setMask(this.mask), and the first
\* leaderboard of the subscribed ranking
SetMask ==
    /\ ctor.pc = "setMask"
    /\ cuMask' = session.mask
    /\ ranking' = RankingMap(lanes, session, options)
    /\ op' = Op("new", Null, 0, 0, <<Call("setMask", session.mask)>>)
    /\ ctor' = [ctor EXCEPT !.pc = "done"]
    /\ UNCHANGED <<options, session, timerAcc, lanes, carSync, events, controls, cuStart,
                   cuState, page>>

NextConstruct ==
    \/ CreateMaskStep
    \/ CreateMaskReturn
    \/ CreateGrid
    \/ SetMask

SpecConstruct == InitConstruct /\ [][NextConstruct]_vars

\* the loop of createMask is not interrupted: it takes its next iteration, or
\* returns, whenever it can
FairConstruct == SpecConstruct /\ WF_vars(CreateMaskStep) /\ WF_vars(CreateMaskReturn)

\* ------------------------------------------------- a repeated finish(id)
\* the race session with one more operation: finish(id) is called again for
\* a lane that is auto-blocked and not manually unblocked
FinishAgain(id) ==
    LET r == finish(session, carSync, id)
        e == ApplyCalls(carSync, cuMask, r.calls)
    IN  /\ id \in session.autoBlockedCars
        /\ ~isCarManuallyUnblocked(carSync, id + 1)
        /\ session' = r.s
        /\ cuMask' = e.cuMask
        /\ carSync' = e.cs
        /\ op' = Op("finish", id, 0, 0, r.calls)
        /\ UNCHANGED <<options, cuState, ctor, timerAcc, lanes, ranking, events, controls, cuStart, page>>

NextRefinish ==
    \/ Next
    \/ \E id \in Lanes : FinishAgain(id)

SpecRefinish == Init /\ [][NextRefinish]_vars

\* ------------------------------------------------------------------- claims
\* C1: for any sequence of raw timer events with any number of wraparounds
\* and a wall clock that does not run backwards, the corrected times the
\* timer normalizer emits are non-decreasing in emission order.
C1_CorrectedTimesNonDecreasing ==
    [][events' > events => ~JsLt(timerAcc'.time, timerAcc.time)]_vars

\* C2: the same (time, sector) event delivered twice in a row to a paid,
\* unmasked lane changes the lane state once: the second delivery leaves
\* times, laps, last and best as they are.
C2_SecondDeliveryChangesNothing ==
    [][(op'.repeat /\ ~HasBit(session.mask, op'.id) /\ hasCarPaid(carSync, op'.id + 1))
        => lanes' = lanes]_vars

\* two events, the second a repeat of the first; the first was a line crossing
\* the lane recorded, and the lane holds that one crossing only
C2_Witness ==
    /\ events = 2 /\ op.repeat /\ op.sensor = 1
    /\ Len(lanes[op.id].times) = 1
    /\ At(lanes[op.id].times[1], 0) = timerAcc.time

\* C3: once best[s] of a lane holds a number, every later value of best[s] is
\* a number less than or equal to it, for every sector index s.
C3_BestNeverIncreases ==
    [][\A id \in Lanes, i \in 0 .. 3 :
         ~IsNaN(At(lanes[id].best, i))
            => /\ ~IsNaN(At(lanes'[id].best, i))
               /\ At(lanes'[id].best, i) <= At(lanes[id].best, i)]_vars
\* C4: no entry of an emitted leaderboard has a lane id whose bit is set in
\* the unpaidMask in force when the leaderboard was emitted.
C4_NoUnpaidLaneOnLeaderboard ==
    op.emitted # Null =>
        \A k \in 1 .. Len(ranking) : ~HasBit(op.emitted, ranking[k].id)

\* a leaderboard was emitted that shows a lane, while another lane of the grid
\* has its unpaidMask bit set
C4_Witness ==
    /\ op.emitted # Null
    /\ Len(ranking) > 0
    /\ \E id \in Lanes : HasBit(op.emitted, id) /\ HasBit(session.active, id)

\* a before b in race order: more laps; or as many laps and a lower time of
\* the latest line crossing, a missing time last; or both equal and a lower id
RaceBefore(a, b) ==
    \/ a.laps > b.laps
    \/ a.laps = b.laps /\ ~IsNaN(a.time) /\ (IsNaN(b.time) \/ a.time < b.time)
    \/ a.laps = b.laps /\ a.time = b.time /\ a.id < b.id

\* C5: in race mode every emitted leaderboard is ordered by descending laps,
\* then by ascending time of the latest line crossing with a missing time
\* last, then by ascending lane id.
C5_RaceLeaderboardOrder ==
    options.mode = "race" =>
        \A k, l \in 1 .. Len(ranking) : k < l => RaceBefore(ranking[k], ranking[l])

\* a race leaderboard of three lanes with as many laps each: the first two
\* ordered by time against their lane ids, the third without a time
C5_Witness ==
    /\ options.mode = "race"
    /\ Len(ranking) = 3
    /\ ranking[1].laps = ranking[2].laps /\ ranking[2].laps = ranking[3].laps
    /\ ~IsNaN(ranking[2].time) /\ ranking[1].time < ranking[2].time
    /\ ranking[1].id > ranking[2].id
    /\ IsNaN(ranking[3].time)

\* the entries of the grid, and every order they can be handed to the sort in
Grid == GridEntries(lanes, session.active, 0)

Orders(g) ==
    {[k \in 1 .. Len(g) |-> g[p[k]]] :
        p \in {q \in [1 .. Len(g) -> 1 .. Len(g)] :
                  \A i, j \in 1 .. Len(g) : i # j => q[i] # q[j]}}

\* the comparator reports lhs and rhs as equal
Equal(mode, lhs, rhs) == JsOr(COMPARE(mode, lhs, rhs), 0) = 0

\* C6, as stated: for every mode the comparator never reports two different
\* lanes as equal, and ranking the entries of the grid gives the same order
\* whatever order they are handed to the sort in.
C6_EveryModeStrictTotalOrder ==
    /\ \A k, l \in 1 .. Len(Grid) : k # l => ~Equal(options.mode, Grid[k], Grid[l])
    /\ \A g \in Orders(Grid) : Sort(options.mode, g) = Sort(options.mode, Grid)

\* the key timeCompare orders by: the best lap time, Infinity when missing or 0
BestKey(e) == JsOr(e.best0, Infinity)

\* C6, amended: raceCompare is a strict total order on entries with distinct
\* lane ids, so a race ranking does not depend on the input order; timeCompare
\* (practice, qualifying) reports lanes with equal or missing best lap times
\* as equal, and the leaderboard, sorted by best lap time, keeps such lanes in
\* ascending lane-id order.
C6_RaceStrictPracticeStable ==
    /\ options.mode = "race" =>
        /\ \A k, l \in 1 .. Len(Grid) :
              k # l => /\ ~Equal("race", Grid[k], Grid[l])
                       /\ raceCompare(Grid[k], Grid[l]) < 0
                            <=> raceCompare(Grid[l], Grid[k]) > 0
        /\ \A k, l, m \in 1 .. Len(Grid) :
              raceCompare(Grid[k], Grid[l]) < 0 /\ raceCompare(Grid[l], Grid[m]) < 0
                => raceCompare(Grid[k], Grid[m]) < 0
        /\ \A g \in Orders(Grid) : Sort("race", g) = ranking
    /\ options.mode # "race" =>
        /\ \A k, l \in 1 .. Len(Grid) :
              Equal(options.mode, Grid[k], Grid[l]) <=> BestKey(Grid[k]) = BestKey(Grid[l])
        /\ \A k, l \in 1 .. Len(ranking) :
              k < l => \/ BestKey(ranking[k]) < BestKey(ranking[l])
                       \/ /\ BestKey(ranking[k]) = BestKey(ranking[l])
                          /\ ranking[k].id < ranking[l].id

\* a race leaderboard of three lanes whose first two crossed the line in the
\* same millisecond on the same lap: the lane id alone orders them
C6_Witness ==
    /\ options.mode = "race"
    /\ Len(ranking) = 3
    /\ ranking[1].laps = ranking[2].laps
    /\ ~IsNaN(ranking[1].time) /\ ranking[1].time = ranking[2].time
\* C7: toggleYellowFlag from the inactive state saves the mask and sets it to
\* 0xFF; the saved mask stays as it is while the flag is active, and the next
\* toggleYellowFlag restores exactly it; each toggle pushes the resulting mask
\* to the hardware.
C7_YellowFlagSavesAndRestores ==
    [][/\ (~session.yellowFlag /\ session'.yellowFlag)
            => /\ session'.realMask = session.mask
               /\ session'.mask = AllLanes
               /\ op'.pushed /\ cuMask' = AllLanes
       /\ (session.yellowFlag /\ session'.yellowFlag)
            => session'.realMask = session.realMask
       /\ (session.yellowFlag /\ ~session'.yellowFlag)
            => /\ session'.mask = session.realMask
               /\ op'.pushed /\ cuMask' = session.realMask]_vars

\* the flag was just switched off again after a lane had finished: the mask
\* with that lane's bit is back, in the session and in the hardware
C7_Witness ==
    /\ op.name = "toggleYellowFlag" /\ ~session.yellowFlag
    /\ session.autoBlockedCars # {}
    /\ session.mask # AllLanes /\ cuMask = session.mask
    /\ \A id \in session.autoBlockedCars : HasBit(session.mask, id)

\* C8: after applyUnpaidMask(u) every bit of u stays set in the live mask for
\* the remainder of the session.
C8_UnpaidBitsStaySet == BitAnd(session.mask, session.unpaidMask) = session.unpaidMask

\* C9, as stated: a lane whose unpaidMask bit is set still accumulates laps
\* from the timer events it receives: a line crossing of such a lane, paid
\* for since and past the debounce, is added to the lane's times.
C9_UnpaidLaneAccumulates ==
    [][(events' > events /\ HasBit(session.unpaidMask, op'.id)
            /\ hasCarPaid(carSync, op'.id + 1))
        => Len(lanes'[op'.id].times) = Len(lanes[op'.id].times) + 1]_vars

\* C9, amended: leaderboard filtering does not alter lane state, and once
\* applyUnpaidMask has set a lane's bit the lane is absent from every later
\* leaderboard emission; but as long as the lane's bit is set in the live
\* mask, the timer events of the lane are dropped before they reach its lane
\* entry, which accumulates nothing.
C9_UnpaidLaneAbsentAndDropped ==
    [][/\ (op'.emitted # Null /\ op'.name # "applyUnpaidMask")
            => \A k \in 1 .. Len(ranking') :
                    ~HasBit(session'.unpaidMask, ranking'[k].id)
       /\ controls' > controls => lanes' = lanes
       /\ (events' > events /\ HasBit(session.mask, op'.id))
            => /\ lanes' = lanes /\ ranking' = ranking /\ timerAcc' = timerAcc
               /\ op'.emitted = Null]_vars

\* a line crossing of a lane of the grid was just dropped: the lane's bit is
\* set in unpaidMask and in the live mask, and the car has paid since
C9_Witness ==
    /\ op.name = "timer"
    /\ HasBit(session.unpaidMask, op.id) /\ HasBit(session.mask, op.id)
    /\ HasBit(session.active, op.id)
    /\ hasCarPaid(carSync, op.id + 1)
    /\ lanes[op.id].times = <<>>
    /\ \A k \in 1 .. Len(ranking) : ranking[k].id # op.id

\* C10: a second finish(id) for a lane that is auto-blocked and not manually
\* unblocked leaves the mask and the auto-blocked set as they are and pushes
\* no mask to the hardware.
C10_SecondFinishChangesNothing ==
    [][op'.name = "finish"
        => /\ session'.mask = session.mask
           /\ session'.autoBlockedCars = session.autoBlockedCars
           /\ ~op'.pushed /\ cuMask' = cuMask]_vars

\* finish(id) was just called again for an auto-blocked lane, after a car
\* joined the grid and with the yellow flag off
C10_Witness ==
    /\ op.name = "finish" /\ op.id \in session.autoBlockedCars
    /\ ~session.yellowFlag
    /\ carSync.active # {}
\* the lanes of the grid
GridLanes == {id \in Bits : HasBit(session.active, id)}

\* C11: in a lap-limited session without countdown, once the lanes have
\* finished through lap-count exhaustion without stop(), the session has
\* performed its global finish: the session-level finished flag is true and
\* the credits are marked consumed.
C11_LapExhaustionFinishesSession ==
    (/\ GridLanes # {}
     /\ \A id \in GridLanes : lanes[id].finished
     /\ ~session.stopped)
        => session.finished /\ session.coinsConsumed

\* the step in which the countdown performs the global finish for the first
\* time, no stop() having come before
TimedFinish == op'.name = "tick" /\ session'.coinsConsumed /\ ~session.coinsConsumed

\* the 1-based ids of the lanes 0..5 with the given property, as a mask
IdMask(P(_)) == BitsToInt({i + 1 : i \in {j \in 0 .. 5 : P(j)}})

TookPart(j) == HasBit(session.active, j) /\ ~HasBit(session.unpaidMask, j)

NotUnpaid(j) == ~HasBit(session.unpaidMask, j)

\* C12 (as stated): on a non-manual global finish the consumption signal
\* lists exactly the 1-based ids of the lanes that took part, the active lanes
\* whose bit is not set in unpaidMask; a never-active lane is not listed.
C12_ConsumptionListsActivePaidLanes ==
    [][(TimedFinish /\ op'.consumed # Null) => op'.consumed = IdMask(TookPart)]_vars

\* C12 (amended): on a non-manual global finish the consumption signal lists
\* exactly the 1-based ids of the lanes 0..5 whose bit is not set in
\* unpaidMask, active or not, and is omitted when there is none; the credit
\* counter of every listed car the payment API knows drops by one, not below 0,
\* and no other counter changes.
C12_ConsumptionListsLanesNotUnpaid ==
    [][TimedFinish =>
        /\ op'.consumed = (IF IdMask(NotUnpaid) = 0 THEN Null ELSE IdMask(NotUnpaid))
        /\ \A c \in Cars :
              carSync'.creditCounters[c] =
                  IF HasBit(IdMask(NotUnpaid), c)
                  THEN JsMax(0, carSync.creditCounters[c] - 1)
                  ELSE carSync.creditCounters[c]]_vars

\* the countdown finished a session with an unpaid lane and a lane on the
\* grid, and the signal lists a lane that never was active
C12_Witness ==
    /\ op.name = "tick" /\ op.consumed # Null
    /\ session.unpaidMask # 0 /\ session.active # 0
    /\ \E j \in 0 .. 5 : ~HasBit(session.active, j) /\ HasBit(op.consumed, j + 1)

\* C13: stop() called before any other global finish sets stopped,
\* manuallyStopped and the session-level finished flag, emits no
\* credit-consumption signal (no credit counter changes) and still issues the
\* block-all signal.
C13_ManualStopSkipsConsumption ==
    [][(op'.name = "stop" /\ ~session.finished) =>
        /\ session'.stopped /\ session'.manuallyStopped /\ session'.finished
        /\ op'.consumed = Null
        /\ carSync'.creditCounters = carSync.creditCounters
        /\ op'.blockedAll]_vars

\* stop() ended a running session in which a paid car had a credit to lose
C13_Witness ==
    /\ op.name = "stop" /\ op.blockedAll /\ op.consumed = Null
    /\ session.manuallyStopped /\ session.started
    /\ \E c \in Cars : carSync.creditCounters[c] > 0 /\ ~HasBit(session.unpaidMask, c - 1)

\* C14 (as stated): with slotmode a lane is not marked finished at the lap
\* limit or at the expiry of the countdown; only stop() finishes it.
C14_SlotmodeDefersFinishToStop ==
    (options.slotmode /\ ~session.manuallyStopped)
        => \A id \in Lanes : ~lanes[id].finished

\* the crossing of lane id that the step recorded as a new lap
Crossed(id) == Len(lanes'[id].times) > Len(lanes[id].times)

\* C14 (amended): with or without slotmode, a recorded crossing marks the lane
\* finished exactly when it completes options.laps laps or when the session is
\* stopped, by stop() or by the expiry of the countdown; slotmode defers
\* neither.
C14_SlotmodeDoesNotDeferFinish ==
    [][\A id \in Lanes : Crossed(id) =>
        (lanes'[id].finished <=>
            \/ lanes[id].finished
            \/ session.stopped
            \/ options.laps # 0 /\ Len(lanes'[id].times) - 1 >= options.laps)]_vars

\* with slotmode a lane finished at the lap limit while the session ran on
C14_Witness ==
    /\ options.slotmode /\ ~session.stopped
    /\ \E id \in Lanes : lanes[id].finished

\* the step in which the countdown reaches zero
Expiry == op'.name = "tick" /\ session.countdown # 0 /\ session'.countdown = 0

\* C15: the countdown reaching zero triggers a global finish that is not a
\* manual one: stopped and the session-level finished flag become true and
\* manuallyStopped keeps its value; when no global finish came before,
\* manuallyStopped is false, the credits are marked consumed, the consumption
\* signal is sent unless every lane 0..5 is unpaid, and block-all is issued.
C15_CountdownExpiryFinishes ==
    [][Expiry =>
        /\ session'.stopped /\ session'.finished
        /\ session'.manuallyStopped = session.manuallyStopped
        /\ ~session.finished =>
              /\ ~session'.manuallyStopped
              /\ session'.coinsConsumed
              /\ op'.blockedAll
              /\ IdMask(NotUnpaid) # 0 => op'.consumed # Null]_vars

\* the countdown ended a started session: credits consumed, cars blocked
C15_Witness ==
    /\ op.name = "tick" /\ session.countdown = 0 /\ session.started
    /\ session.finished /\ ~session.manuallyStopped
    /\ op.consumed # Null /\ op.blockedAll

\* the step is a period of the countdown's interval
IsTick == op'.name = "tick" /\ controls' # controls

\* C16: the countdown is lowered, by TIMER_INTERVAL and not below 0, on the
\* ticks on which the session is started and either options.pause is off or
\* the start-light state is 0 and the connection state is 'connected'; on
\* every other tick, before start() and on every other step it is unchanged.
\* It never increases and never is negative.
C16_CountdownLoweredOnlyWhileRunning ==
    [][/\ session'.countdown =
            IF /\ IsTick
               /\ session.started
               /\ (~options.pause \/ (cuStart = 0 /\ cuState = "connected"))
            THEN (IF session.countdown - TIMER_INTERVAL > 0
                  THEN session.countdown - TIMER_INTERVAL ELSE 0)
            ELSE session.countdown
       /\ session'.countdown <= session.countdown
       /\ session'.countdown >= 0]_vars

\* a tick of a started session with options.pause left the countdown alone
\* because the hardware was disconnected
C16_Witness ==
    /\ op.name = "tick" /\ session.started /\ options.pause
    /\ cuStart = 0 /\ cuState = "disconnected"
    /\ session.countdown = options.time

\* C17: a consumer that subscribes to the countdown stream after the countdown
\* has ticked down receives the current remaining time as its first value, not
\* the configured initial time.
C17_LateSubscriberSeesRemainingTime ==
    [][(op'.name = "subscribeTimer" /\ controls' # controls)
        => op'.time = session.countdown]_vars

\* the mask the constructor is to end with: bit 6 iff auto is off, bit 7 iff
\* pace is off, and of the lanes 0..5 exactly those from options.drivers on
ExpectedMask ==
    BitsToInt({i \in Bits : \/ i = 6 /\ ~options.auto
                            \/ i = 7 /\ ~options.pace
                            \/ i <= 5 /\ i >= options.drivers})

\* C18: for every options.drivers in 1..8 and every auto/pace setting the
\* construction of the session terminates (createMask, its only loop, returns)
\* and ends with a mask that has bit 6 set iff auto is off, bit 7 set iff pace
\* is off and exactly the bits drivers..5 set among the lanes 0..5, and that
\* mask has been pushed to the hardware.
C18_ConstructionTerminatesWithMask ==
    (options.drivers \in 1 .. 8)
        => /\ <>(ctor.pc # "createMask")
           /\ [](ctor.pc = "done" => session.mask = ExpectedMask /\ cuMask = session.mask)

\* the lanes of the leaderboard
RankedLanes == {ranking[k].id : k \in 1 .. Len(ranking)}

\* the lanes whose bit is not set in the mask of the session
EnabledLanes == {i \in Bits : ~HasBit(session.mask, i)}

\* C19 (as stated): at session creation the roster, and so the first
\* leaderboard, holds a placeholder entry for every lane 0..7 whose bit is not
\* set in the initial hardware mask, whether or not options.drivers is set.
C19_PlaceholderForEveryEnabledLane ==
    ctor.pc = "done" =>
        /\ EnabledLanes \subseteq GridLanes
        /\ EnabledLanes \subseteq RankedLanes

\* C19 (amended): at session creation the roster and the first leaderboard
\* hold exactly: when options.drivers is set, every lane 0..7 whose bit is not
\* set in the initial mask; and, set or not, the lanes of the cars the payment
\* service reports active.  Without options.drivers there is no placeholder.
C19_PlaceholdersOnlyWithDrivers ==
    ctor.pc = "done" =>
        LET roster == (IF options.drivers # 0 THEN EnabledLanes ELSE {})
                          \cup {c - 1 : c \in carSync.active}
        IN  GridLanes = roster /\ RankedLanes = roster

\* a session created without options.drivers: only the car the payment
\* service reports is on the roster, the other enabled lanes are not
C19_Witness ==
    /\ ctor.pc = "done" /\ options.drivers = 0
    /\ GridLanes # {} /\ GridLanes # EnabledLanes

\* the step is a poll of the payment API
IsPoll == op'.name = "poll" /\ controls' # controls

\* the step is a call of markCoinsAsConsumed
IsConsume == op'.name = "markCoinsAsConsumed" /\ controls' # controls

Counter(c) == carSync.creditCounters[c]

\* C20 (as stated): across any sequence of polls a car's credit counter grows
\* by exactly the positive increase of its coin_value between consecutive
\* polls and is unchanged when coin_value stays equal or drops; only
\* markCoinsAsConsumed lowers it, by 1 and never below 0.
C20_CounterFollowsCoinIncrease ==
    [][\A c \in Cars :
        /\ (IsPoll /\ c \in DOMAIN carSync.response /\ c \in DOMAIN carSync'.response) =>
              Counter(c)' = Counter(c)
                  + (IF carSync'.response[c] > carSync.response[c]
                     THEN carSync'.response[c] - carSync.response[c] ELSE 0)
        /\ Counter(c)' < Counter(c) =>
              IsConsume /\ Counter(c)' = Counter(c) - 1
        /\ Counter(c)' >= 0]_vars

\* the coin_value of the car's previous report, 0 when it was never reported
LastReported(c) ==
    IF c \in DOMAIN carSync.previousCoinValues THEN carSync.previousCoinValues[c] ELSE 0

\* C20 (amended): the first poll after polling starts only records the
\* reported values.  Every later poll adds to the counter of a car it reports
\* the positive increase of coin_value over the car's previous report (0 when
\* the car was never reported) and leaves it unchanged when coin_value is equal
\* or lower; the counter of a car it does not report is unchanged.
\* markCoinsAsConsumed lowers the counter of a listed car of the latest
\* response by 1, not below 0, and nothing else changes a counter.
C20_CounterFollowsIncreaseAfterCapture ==
    [][\A c \in Cars :
        Counter(c)' =
            IF IsPoll /\ carSync.isInitialized /\ c \in DOMAIN carSync'.response
                      /\ carSync'.response[c] > LastReported(c)
            THEN Counter(c) + (carSync'.response[c] - LastReported(c))
            ELSE IF IsConsume /\ HasBit(op'.consumed, c) /\ c \in DOMAIN carSync.response
                              /\ Counter(c) > 0
            THEN Counter(c) - 1
            ELSE Counter(c)]_vars

\* a counter that grew with a coin survived the reset of coin_value to 0
C20_Witness ==
    /\ op.name = "poll"
    /\ \E c \in DOMAIN carSync.response :
          carSync.response[c] = 0 /\ Counter(c) > MaxCredit

\* the step is a timer event of lane id that passes the mask filter
TimerPasses(id) == events' # events /\ op'.id = id /\ timerFilter(session, id)

\* C21: while the payment API is disabled no payment restriction applies: the
\* unpaid mask is 0, and a start/finish crossing of an unmasked lane (the
\* crossings are more than minLapTime apart) is recorded whatever the lane's
\* credit counter.
C21_DisabledApiNoRestriction ==
    [][~carSync.enabled =>
        /\ session'.unpaidMask = 0
        /\ \A id \in Lanes : TimerPasses(id) => Crossed(id)]_vars

\* the step records a crossing of lane id, not finished before, and so asks
\* isFinished with the number of laps the crossing completes
AsksIsFinished(id) == Crossed(id) /\ ~lanes[id].finished

LapsSoFar(id) == Len(lanes'[id].times) - 1

\* C22 (as stated): isFinished(lapsSoFar) is true if and only if the session
\* was manually stopped, or options.laps is set and lapsSoFar >= options.laps,
\* or slotmode is off and the session-level finished flag is already true.
C22_IsFinishedIffManuallyStopped ==
    [][\A id \in Lanes : AsksIsFinished(id) =>
        (lanes'[id].finished <=>
            \/ session.manuallyStopped
            \/ options.laps # 0 /\ LapsSoFar(id) >= options.laps
            \/ ~options.slotmode /\ session.finished)]_vars

\* C22 (amended): isFinished(lapsSoFar) is true if and only if the stopped
\* flag is set, by stop() or by the countdown reaching zero, or options.laps
\* is set and lapsSoFar >= options.laps, or slotmode is off and the
\* session-level finished flag is already true.
C22_IsFinishedIffStopped ==
    [][\A id \in Lanes : AsksIsFinished(id) =>
        (lanes'[id].finished <=>
            \/ session.stopped
            \/ options.laps # 0 /\ LapsSoFar(id) >= options.laps
            \/ ~options.slotmode /\ session.finished)]_vars

\* in slotmode without lap limit a lane was marked finished by a crossing
\* after the countdown had run out, stop() never called
C22_Witness ==
    /\ options.slotmode /\ options.laps = 0
    /\ session.stopped /\ ~session.manuallyStopped
    /\ \E id \in Lanes : lanes[id].finished

\* C23: after a global finish in non-slot mode every lane of the leaderboard
\* that makes a start/finish crossing past the debounce (the lane is not
\* masked, the crossings are more than minLapTime apart) is marked finished at
\* that crossing.
C23_CrossingAfterFinishMarksFinished ==
    [][\A id \in Lanes :
        (/\ session.finished /\ ~options.slotmode
         /\ id \in RankedLanes
         /\ TimerPasses(id) /\ op'.sensor = 1)
            => lanes'[id].finished]_vars

\* the recorded crossing of lane id on which the times scan calls finish(id):
\* the lane is not finished yet and isFinished answers true
LaneFinish(id) ==
    /\ Crossed(id) /\ ~lanes[id].finished
    /\ isFinished(session, options, LapsSoFar(id))

\* C24: when finish(id) runs for a manually unblocked lane the lane's bit is
\* clear in the mask afterwards and the lane is not recorded as auto-blocked;
\* for any other lane the first finish sets the lane's bit; in both cases the
\* lane's finished flag is true afterwards, and a finished flag never goes
\* back to false.
C24_LaneFinishMasksUnlessUnblocked ==
    [][\A id \in Lanes :
        /\ LaneFinish(id) =>
            /\ lanes'[id].finished
            /\ IF id + 1 \in carSync.unblocked
               THEN /\ ~HasBit(session'.mask, id) /\ ~HasBit(cuMask', id)
                    /\ id \notin session'.autoBlockedCars
               ELSE /\ HasBit(session'.mask, id) /\ HasBit(cuMask', id)
                    /\ id \in session'.autoBlockedCars
        /\ lanes[id].finished => lanes'[id].finished]_vars

C24_Witness ==
    \E id \in Lanes :
        /\ op.name = "timer" /\ op.id = id /\ lanes[id].finished
        /\ id + 1 \in carSync.unblocked /\ ~HasBit(session.mask, id)

\* C25: a timer event of a lane whose bit is set in the live mask changes no
\* lane's times, last or best (nor, with the times, its laps); in particular
\* no timer event changes any lane while the yellow flag is active.
C25_MaskedLaneRecordsNothing ==
    [][events' > events =>
        /\ HasBit(session.mask, op'.id) => lanes' = lanes
        /\ session.yellowFlag => lanes' = lanes]_vars

\* under the yellow flag a paid lane that has recorded a crossing and is not
\* finished crossed the line again, and its times are those of before
C25_Witness ==
    /\ op.name = "timer" /\ session.yellowFlag
    /\ hasCarPaid(carSync, op.id + 1)
    /\ ~HasBit(session.realMask, op.id)
    /\ Len(lanes[op.id].times) = 1 /\ ~lanes[op.id].finished

\* the time of the lane's latest recorded start/finish crossing
LastCrossing(id) == At(lanes[id].times[Len(lanes[id].times)], 0)

\* a sector-1 timer event of the paid, unmasked lane id arrives, the first of
\* the lane or more than minLapTime after the lane's latest crossing
LapCrossing(id) ==
    /\ TimerPasses(id) /\ op'.sensor = 1 /\ hasCarPaid(carSync, id + 1)
    /\ \/ lanes[id].times = <<>>
       \/ timerAcc'.time > LastCrossing(id) + options.minLapTime

\* C26: every sector-1 crossing of a paid, unmasked lane more than minLapTime
\* after the previous one is recorded, so that laps is the number of crossings
\* minus one; last[0] is the difference of the last two crossings and best[0]
\* the smallest lap difference so far.
C26_LapsLastBest ==
    [][\A id \in Lanes : LapCrossing(id) =>
        /\ Len(lanes'[id].times) = Len(lanes[id].times) + 1
        /\ Entry(id, lanes'[id]).laps = Len(lanes[id].times)
        /\ lanes[id].times # <<>> =>
            LET lap == timerAcc'.time - LastCrossing(id)
            IN  /\ At(lanes'[id].last, 0) = lap
                /\ At(lanes'[id].best, 0) =
                        IF Len(lanes[id].times) = 1 \/ lap < At(lanes[id].best, 0)
                        THEN lap ELSE At(lanes[id].best, 0)]_vars

\* crossings at 0, 42000 and 85000 with minLapTime 500: two laps, best 42000
C26_Witness ==
    /\ options.minLapTime = 500
    /\ Len(lanes[0].times) = 3
    /\ At(lanes[0].times[1], 0) = 0
    /\ At(lanes[0].times[2], 0) = 42000
    /\ At(lanes[0].times[3], 0) = 85000
    /\ Entry(0, lanes[0]).laps = 2
    /\ At(lanes[0].last, 0) = 43000
    /\ At(lanes[0].best, 0) = 42000

\* a sector-1 timer event of the paid, unmasked lane id arrives, and the lane
\* has recorded a start/finish crossing before
NextCrossing(id) ==
    /\ TimerPasses(id) /\ op'.sensor = 1 /\ hasCarPaid(carSync, id + 1)
    /\ lanes[id].times # <<>>

\* C27, as stated: a sector-1 crossing at least minLapTime after the lane's
\* previous sector-1 crossing is counted as a lap, exactly minLapTime
\* included; one less than minLapTime after it changes no lane state.
C27_CountedFromMinLapTime ==
    [][\A id \in Lanes : NextCrossing(id) =>
        IF timerAcc'.time - LastCrossing(id) >= options.minLapTime
        THEN Len(lanes'[id].times) = Len(lanes[id].times) + 1
        ELSE lanes' = lanes]_vars

\* C27, amended: a sector-1 crossing is counted as a lap when it arrives more
\* than minLapTime after the lane's previous sector-1 crossing; one that
\* arrives exactly minLapTime after it, or less, changes no lane state.
C27_CountedAboveMinLapTime ==
    [][\A id \in Lanes : NextCrossing(id) =>
        IF timerAcc'.time - LastCrossing(id) > options.minLapTime
        THEN Len(lanes'[id].times) = Len(lanes[id].times) + 1
        ELSE lanes' = lanes]_vars

\* the latest event is a sector-1 crossing exactly minLapTime after the one
\* crossing the lane holds
C27_Witness ==
    /\ op.name = "timer" /\ op.sensor = 1 /\ hasCarPaid(carSync, op.id + 1)
    /\ ~HasBit(session.mask, op.id)
    /\ Len(lanes[op.id].times) = 1
    /\ timerAcc.time = At(lanes[op.id].times[1], 0) + options.minLapTime

\* C28, as stated: as long as the raw counter has not wrapped around, every
\* corrected time is the raw time of its event, the first event included.
C28_NoCorrectionBeforeWraparound ==
    [][(events' > events /\ (timerAcc.prev = Infinity \/ op'.time >= timerAcc.prev))
        => timerAcc'.time = op'.time]_vars

\* C28, amended: the first event is corrected to 0, its raw time becoming the
\* offset; every later event whose raw time is not below the previous one
\* keeps that offset, so that until the first wraparound every corrected time
\* is the raw time minus the raw time of the first event.
C28_FirstEventIsTimeZero ==
    [][events' > events =>
        IF timerAcc.prev = Infinity
        THEN timerAcc'.time = 0 /\ timerAcc'.offset = 0 - op'.time
        ELSE op'.time >= timerAcc.prev =>
                /\ timerAcc'.offset = timerAcc.offset
                /\ timerAcc'.time = op'.time + timerAcc.offset]_vars

\* the second event of a stream whose first event had a raw time above 0:
\* its corrected time is below its raw time
C28_Witness ==
    /\ events = 2 /\ op.name = "timer"
    /\ timerAcc.offset < 0
    /\ timerAcc.time = op.time + timerAcc.offset
    /\ timerAcc.time > 0

\* C29: each time the start-light state changes to a new non-zero value, and
\* each time the connection state reports 'connected', the session pushes its
\* mask to the hardware, which then holds the session's current mask.
C29_ResetPushesMask ==
    [][(\/ cuStart' # cuStart /\ cuStart' # 0
        \/ cuState' # cuState /\ cuState' = "connected")
        => op'.pushed /\ cuMask' = session'.mask]_vars

\* the hardware reconnected during a started session and the mask was pushed
C29_Witness ==
    /\ op.name = "state" /\ cuState = "connected" /\ op.pushed
    /\ session.started /\ cuMask = session.mask

\* the page pushed the event of sector index i for lane id
Emitted(i, id) ==
    \E e \in page'.events :
        e.index = i /\ e.id = id /\ e.name = (IF i = 0 THEN "bestlap" ELSE "bests")

\* lane id's own best of sector index i strictly improves
OwnBestImproves(id, i) ==
    /\ ~IsNaN(At(lanes[id].best, i)) /\ ~IsNaN(At(lanes'[id].best, i))
    /\ At(lanes'[id].best, i) < At(lanes[id].best, i)

\* the lowest best of sector index i any lane of the session holds
SessionBest(i) ==
    LET all == {JsOr(At(lanes[l].best, i), Infinity) : l \in Lanes}
    IN  CHOOSE m \in all : \A x \in all : m <= x

\* C30, as stated: 'bestlap' is pushed for a lane whenever the lane's own best
\* lap time strictly improves and the lane has completed three laps or more;
\* 'bests1', ... is pushed whenever the lane's own best of that sector strictly
\* improves, whatever the number of laps.
C30_EventOnOwnBest ==
    [][\A id \in Lanes :
        /\ (OwnBestImproves(id, 0) /\ Entry(id, lanes'[id]).laps >= 3) => Emitted(0, id)
        /\ \A i \in 1 .. 3 : OwnBestImproves(id, i) => Emitted(i, id)]_vars

\* C30, amended: the event of a sector index ('bestlap' for 0, 'bests1', ...
\* above) is pushed for a lane exactly when the lane has completed three laps
\* or more and its best of that index is strictly below the best of that
\* index of every lane of the session so far, the lane's own included; the
\* three-lap condition holds for the sector events too, and a best reached
\* with fewer laps lowers the session's best without an event.
C30_EventOnSessionBest ==
    [][\A id \in Lanes, i \in 0 .. 3 :
        (events' > events /\ op'.id = id) =>
            /\ Emitted(i, id) <=>
                    /\ Entry(id, lanes'[id]).laps >= 3
                    /\ ~IsNaN(At(lanes'[id].best, i))
                    /\ At(lanes'[id].best, i) < SessionBest(i)
            /\ \A e \in page'.events : e.id = id]_vars

\* 'bestlap' was pushed for a lane that beat the best lap of the other lane
C30_Witness ==
    \E e \in page.events :
        /\ e.name = "bestlap"
        /\ \E l \in Lanes \ {e.id} :
                /\ ~IsNaN(At(lanes[l].best, 0))
                /\ At(lanes[e.id].best, 0) < At(lanes[l].best, 0)

\* C31: 'alldone' is pushed at most once in a session, only in a state where
\* the session's finished flag is true and every entry of the current
\* leaderboard is finished, and it has been pushed as soon as the flag is true
\* and every entry of the leaderboard the ranking emitted is finished.
C31_AllDoneOnce ==
    [][/\ "alldone" \in page'.events =>
            /\ "alldone" \notin page.taken
            /\ session'.finished
            /\ \A k \in 1 .. Len(ranking') : ranking'[k].finished
       /\ "alldone" \in page.taken => "alldone" \in page'.taken
       /\ (/\ page'.rankingSeen /\ session'.finished
           /\ \A k \in 1 .. Len(ranking') : ranking'[k].finished)
            => "alldone" \in page'.taken]_vars

\* 'alldone' was just pushed at the crossing that finished the last lane of
\* the leaderboard of a finished session
C31_Witness ==
    /\ "alldone" \in page.events
    /\ op.name = "timer" /\ Len(ranking) >= 1

\* the countdown reaches 0 in this step
ReachesZero == session.countdown > 0 /\ session'.countdown = 0

\* C32: 'timeout' is pushed at most once in a session, exactly when the
\* countdown reaches 0 while the session was not finished already; it is not
\* pushed when the session was finished, by stop() for one, before the
\* countdown reached 0.
C32_TimeoutWhenNotFinished ==
    [][/\ "timeout" \in page'.events <=> (ReachesZero /\ ~session.finished)
       /\ "timeout" \in page'.events => "timeout" \notin page.taken
       /\ "timeout" \in page.taken => "timeout" \in page'.taken]_vars

\* the current-lap count becomes n in this step
CountBecomes(n) == page.currentLap # n /\ page'.currentLap = n

\* C33: with a lap limit L, 'finallap' is pushed when the current-lap count
\* first equals L and 'fivelaps' when it first equals L - 4, the latter only
\* if L >= 10, each only while the session is not finished; neither is pushed
\* a second time.
C33_FinalLapFiveLaps ==
    [][/\ "finallap" \in page'.events <=>
            /\ options.laps # 0 /\ CountBecomes(options.laps) /\ ~session.finished
       /\ "fivelaps" \in page'.events <=>
            /\ options.laps >= FiveLapsLimit /\ CountBecomes(options.laps - 4)
            /\ ~session.finished
       /\ \A name \in {"finallap", "fivelaps"} :
            /\ name \in page'.events => name \notin page.taken
            /\ name \in page.taken => name \in page'.taken]_vars

\* 'finallap' was just pushed in a session that pushed 'fivelaps' before
C33_Witness ==
    /\ "finallap" \in page.events
    /\ "fivelaps" \in page.taken
    /\ page.currentLap = options.laps

\* C34: after every operation of the session (the constructor,
\* toggleYellowFlag, applyUnpaidMask, the finish of a lane, the global finish)
\* the mask most recently pushed to the hardware is the session's mask.
C34_HardwareHoldsSessionMask == cuMask = session.mask

\* the finish of a lane just set the lane's bit and pushed the mask, in a
\* session whose mask holds the bits of applyUnpaidMask as well
C34_Witness ==
    /\ op.name = "timer" /\ op.pushed
    /\ HasBit(session.mask, op.id) /\ op.id \in session.autoBlockedCars
    /\ session.unpaidMask # 0
    /\ cuMask = session.mask

\* C35: in every reachable state the yellow flag is active if and only if a
\* saved mask is held, and while the flag is active the live mask is 0xFF.
C35_YellowFlagHoldsSavedMask ==
    /\ session.yellowFlag <=> session.realMask # Null
    /\ session.yellowFlag => session.mask = AllLanes

\* applyUnpaidMask and a global finish ran while the flag was active
C35_Witness ==
    /\ session.yellowFlag /\ session.realMask # Null
    /\ session.unpaidMask # 0 /\ session.finished
    /\ session.mask = AllLanes

\* C36: in a session with the lap limit options.laps = N no lane that is not
\* manually unblocked has a lap count above N, whatever the timer events,
\* yellow-flag toggles, applyUnpaidMask and stop() that came before.
C36_LapsWithinLimit ==
    options.laps # 0 =>
        \A id \in Lanes :
            id + 1 \notin carSync.unblocked => Entry(id, lanes[id]).laps <= options.laps

\* a lane that completed the lap limit and is masked crossed the line again
\* after a yellow flag was shown and withdrawn
C36_Witness ==
    /\ op.name = "timer" /\ op.id + 1 \notin carSync.unblocked
    /\ Entry(op.id, lanes[op.id]).laps = options.laps
    /\ events = MaxEvents /\ controls >= 2 /\ ~session.yellowFlag
    /\ HasBit(session.mask, op.id)
    /\ hasCarPaid(carSync, op.id + 1)

\* C37: when options.laps is set the published current-lap count never
\* exceeds options.laps, the moment the leader completes its final lap
\* included.
C37_CountWithinLimit == options.laps # 0 => page.currentLap <= options.laps

\* C38: the published current-lap count never decreases over a session,
\* whatever the order in which the entries of the lanes arrive.
C38_CountNeverDecreases == [][page'.currentLap >= page.currentLap]_vars

\* the entry of a lane arrived that is more than a lap behind the count
C38_Witness ==
    /\ op.name = "timer" /\ ~HasBit(session.mask, op.id)
    /\ lanes[op.id].times # <<>>
    /\ Entry(op.id, lanes[op.id]).laps + 1 < page.currentLap

\* C39: over any sequence of stop() calls and countdown periods at zero the
\* session issues the credit-consumption signal at most once and the
\* block-all signal at most once: once a global finish has happened no later
\* operation issues either or changes a credit counter; and when the first
\* global finish comes from stop() the credits are not consumed, then or
\* later.
C39_SignalsAtMostOnce ==
    [][/\ session.finished =>
            /\ op'.consumed = Null /\ ~op'.blockedAll
            /\ carSync'.creditCounters = carSync.creditCounters
       /\ (~session.finished /\ session'.finished /\ op'.name = "stop") =>
            /\ op'.consumed = Null
            /\ carSync'.creditCounters = carSync.creditCounters]_vars

\* the countdown ran out after stop() had finished the session: a paid car
\* that took part still has its credit
C39_Witness ==
    /\ op.name = "tick" /\ session.countdown = 0
    /\ session.manuallyStopped /\ session.coinsConsumed
    /\ \E c \in Cars : carSync.creditCounters[c] > 0 /\ ~HasBit(session.unpaidMask, c - 1)

\* C40: the pit-visit count of a lane increases only when the lane's bit in
\* the pit bitmask of the hardware goes from clear to set: a change of the
\* lane mask while the lane stays in the pit adds no visit.
C40_VisitOnlyOnPitEntry ==
    [][\A id \in Lanes :
        lanes'[id].pits > lanes[id].pits
            => ~lanes[id].pitline /\ lanes'[id].pitline]_vars
====
